---- MODULE Spec2Model ----
(***************************************************************************)
(* NurseRounds front end: the blood-pressure rule (lib/utils.js), the      *)
(* new-visit form (NewVisitPage), the intervention and unable-to-contact   *)
(* forms, the REST client's 401 interceptor (lib/api.js), the session      *)
(* context (AuthProvider) and the route guards (App.js).                   *)
(***************************************************************************)
EXTENDS Integers, Sequences, FiniteSets, TLC

VARIABLES
    argSys, argDia, bpCalled, bpResult,   \* a call of isBloodPressureAbnormal
    lsToken, lsData,                      \* localStorage nurse_token, nurse_data
    nurse, authLoading,                   \* AuthProvider state
    path, pendingHref,                    \* router location, window.location.href assigned
    net,                                  \* requests in flight
    created,                              \* records the backend has created
    toasts, lastHandler,                  \* messages of the last handler, and which it was
    loginLoading, loginError,             \* LoginPage / RegisterPage state
    patient, pageLoading, saving,         \* state shared by the three form pages
    editsWhileSaving,                     \* input events since the pending save began
    edits,                                \* input events counted by the setters' specification
    visitData, bpAbnormal,                \* NewVisitPage state
    iForm,                                \* InterventionPage formData
    uForm,                                \* UnableToContactPage formData
    visit, detailPatient,                 \* VisitDetailPage state
    downloads,                            \* files doc.save has produced
    clock,                                \* the time new Date() gives
    visitType, organization,              \* VisitTypePage state
    ssVisitType, ssOrganization           \* sessionStorage visitType, organization

bpVars   == <<argSys, argDia, bpCalled, bpResult>>
authVars == <<lsToken, lsData, nurse, authLoading>>
navVars  == <<path, pendingHref>>
pageVars == <<patient, pageLoading, saving, editsWhileSaving, edits>>
formVars == <<visitData, bpAbnormal, iForm, uForm>>
loginVars == <<loginLoading, loginError>>
pdfVars == <<visit, detailPatient, downloads, clock>>
typeVars == <<visitType, organization, ssVisitType, ssOrganization>>
vars == <<argSys, argDia, bpCalled, bpResult, lsToken, lsData, nurse, authLoading,
          path, pendingHref, net, created, toasts, lastHandler, loginLoading,
          loginError, patient, pageLoading, saving, editsWhileSaving, edits, visitData,
          bpAbnormal,
          iForm, uForm, visit, detailPatient, downloads, clock,
          visitType, organization, ssVisitType, ssOrganization>>

Null == "null"

(***************************************************************************)
(* JavaScript values that reach parseInt: strings (sequences of one-       *)
(* character strings) and numbers.                                         *)
(***************************************************************************)
Str(s) == [k |-> "str", n |-> 0, s |-> s]
Num(n) == [k |-> "num", n |-> n, s |-> <<>>]

DigitChars == <<"0", "1", "2", "3", "4", "5", "6", "7", "8", "9">>
IsDigit(c) == \E i \in 1..10 : DigitChars[i] = c
DigitVal(c) == (CHOOSE i \in 1..10 : DigitChars[i] = c) - 1
IsWhiteSpace(c) == c \in {" ", "\t", "\n"}

RECURSIVE NatToString(_)
NatToString(n) ==
    IF n < 10 THEN <<DigitChars[n + 1]>>
    ELSE NatToString(n \div 10) \o <<DigitChars[(n % 10) + 1]>>

\* Number::toString for an integer
NumberToString(n) == IF n < 0 THEN <<"-">> \o NatToString(0 - n) ELSE NatToString(n)

\* the ToString step parseInt applies to its argument
JSToString(v) == IF v.k = "num" THEN NumberToString(v.n) ELSE v.s

RECURSIVE TrimStart(_)
TrimStart(s) == IF s # <<>> /\ IsWhiteSpace(Head(s)) THEN TrimStart(Tail(s)) ELSE s

RECURSIVE DigitPrefixLen(_)
DigitPrefixLen(s) == IF s # <<>> /\ IsDigit(Head(s)) THEN 1 + DigitPrefixLen(Tail(s)) ELSE 0

RECURSIVE DigitsValue(_, _)
DigitsValue(s, acc) ==
    IF s = <<>> THEN acc ELSE DigitsValue(Tail(s), acc * 10 + DigitVal(Head(s)))

NaN == [nan |-> TRUE, val |-> 0]
isNaN(r) == r.nan

\* parseInt(string) with no radix: leading white space, an optional sign, then the
\* longest prefix of decimal digits; NaN when there is no digit
parseInt(v) ==
    LET t == TrimStart(JSToString(v))
        neg == t # <<>> /\ Head(t) = "-"
        u == IF t # <<>> /\ Head(t) \in {"+", "-"} THEN Tail(t) ELSE t
        len == DigitPrefixLen(u)
        mag == DigitsValue(SubSeq(u, 1, len), 0)
    IN  IF len = 0 THEN NaN
        ELSE [nan |-> FALSE, val |-> IF neg THEN 0 - mag ELSE mag]

isBloodPressureAbnormal_BothNaN(systolic, diastolic) ==
    LET sys == parseInt(systolic)
        dia == parseInt(diastolic)
    IN  IF isNaN(sys) /\ isNaN(dia) THEN FALSE
        ELSE \/ ~isNaN(sys) /\ (sys.val >= 140 \/ sys.val < 90)
             \/ ~isNaN(dia) /\ (dia.val >= 90 \/ dia.val < 60)

isBloodPressureAbnormal_StrictUpper(systolic, diastolic) ==
    LET sys == parseInt(systolic)
        dia == parseInt(diastolic)
    IN  IF isNaN(sys) \/ isNaN(dia) THEN FALSE
        ELSE sys.val > 140 \/ dia.val > 90 \/ sys.val < 90 \/ dia.val < 60

isBloodPressureAbnormal(systolic, diastolic) ==
    LET sys == parseInt(systolic)
        dia == parseInt(diastolic)
    IN  IF isNaN(sys) \/ isNaN(dia) THEN FALSE
        ELSE sys.val >= 140 \/ dia.val >= 90 \/ sys.val < 90 \/ dia.val < 60

(***************************************************************************)
(* Bounds and input sets                                                   *)
(***************************************************************************)
MaxReading == 160      \* largest integer reading passed to isBloodPressureAbnormal
NegReading == 2        \* readings go down to -NegReading
MaxInflight == 2       \* requests in flight at a time
MaxEditsWhileSaving == 1   \* input events while a save is pending
MaxEdits == 3          \* input events of the new-visit form when every setter is exercised
MaxDownloads == 2      \* reports generated from one visit page
MaxClock == 1          \* the clock advances up to here

Readings == (0 - NegReading)..MaxReading

Tokens == {"tokA", "tokB"}
Profiles == {"nurseA", "nurseB"}
patientId == "p1"

\* HTTP status of a response; NoResponse is a transport error (error.response undefined)
NoResponse == 0
Statuses == {200, 401, 500, NoResponse}

JSONstringify(p) == <<"json", p>>
JSONparse(s) == s[2]

\* a missing nurse_data item (getItem gives null); nurse_token uses Null
NoItem == <<>>

(***************************************************************************)
(* lib/api.js: the response interceptor.  st is the part of the browser    *)
(* state it touches.                                                       *)
(***************************************************************************)
interceptors_response_KeepsData(status, st) ==
    IF status = 401
    THEN [token |-> Null, data |-> st.data, href |-> "/login", rejected |-> TRUE]
    ELSE [token |-> st.token, data |-> st.data, href |-> st.href,
          rejected |-> status # 200]

interceptors_response(status, st) ==
    IF status = 401
    THEN [token |-> Null, data |-> NoItem, href |-> "/login", rejected |-> TRUE]
    ELSE [token |-> st.token, data |-> st.data, href |-> st.href,
          rejected |-> status # 200]

Browser == [token |-> lsToken, data |-> lsData, href |-> pendingHref]

Request(op, payload) == [op |-> op, alive |-> TRUE, payload |-> payload]
NoPayload == <<>>

RemoveAt(q, i) == SubSeq(q, 1, i - 1) \o SubSeq(q, i + 1, Len(q))
\* the requests of an operation that are in flight
Pending(n, op) == {i \in DOMAIN n : n[i].op = op}

\* a route change unmounts the page: its pending continuations no longer set its state
Unmount(q) ==
    [i \in DOMAIN q |-> IF q[i].op = "auth.me" THEN q[i] ELSE [q[i] EXCEPT !.alive = FALSE]]

(***************************************************************************)
(* App.js: route guards and the route table                                *)
(***************************************************************************)
LoadingView == "Loading"
NavigateTo(p) == <<"Navigate", p>>
Page(name) == <<"Page", name>>

ProtectedRoute_NoNurseCheck(n, loading, children) ==
    IF loading THEN Page(LoadingView) ELSE children

ProtectedRoute(n, loading, children) ==
    IF loading THEN Page(LoadingView)
    ELSE IF n = Null THEN NavigateTo("/login")
    ELSE children

PublicRoute(n, loading, children) ==
    IF loading THEN Page(LoadingView)
    ELSE IF n # Null THEN NavigateTo("/dashboard")
    ELSE children

PatientPath == "/patients/p1"
NewVisitPath == "/patients/p1/new-visit"
VisitPath == "/visits/v1"
InterventionPath == "/patients/p1/intervention"
UnableToContactPath == "/patients/p1/unable-to-contact"

Paths == {"/", "/login", "/register", "/dashboard", PatientPath, NewVisitPath,
          VisitPath, "/reports"}

AppRoutes(p, n, loading) ==
    CASE p = "/" -> NavigateTo("/dashboard")
      [] p = "/login" -> PublicRoute(n, loading, Page("LoginPage"))
      [] p = "/register" -> PublicRoute(n, loading, Page("RegisterPage"))
      [] p = "/dashboard" -> ProtectedRoute(n, loading, Page("DashboardPage"))
      [] p = PatientPath -> ProtectedRoute(n, loading, Page("PatientDetailPage"))
      [] p = NewVisitPath -> ProtectedRoute(n, loading, Page("NewVisitPage"))
      [] p = VisitPath -> ProtectedRoute(n, loading, Page("VisitDetailPage"))
      [] OTHER -> NavigateTo("/dashboard")

View == AppRoutes(path, nurse, authLoading)

ProtectedPages == {Page("DashboardPage"), Page("PatientDetailPage"),
                   Page("NewVisitPage"), Page("VisitDetailPage")}
PublicPages == {Page("LoginPage"), Page("RegisterPage")}
ProtectedPaths == {"/dashboard", PatientPath, NewVisitPath, VisitPath}
PublicPaths == {"/login", "/register"}

(***************************************************************************)
(* Initial form state of the three form pages                              *)
(***************************************************************************)
Today == "today"
E == Str(<<>>)       \* the empty string of an input

initialVisitData ==
    [visit_date |-> Today,
     vital_signs |->
        [weight |-> E, body_temperature |-> E,
         blood_pressure_systolic |-> E, blood_pressure_diastolic |-> E,
         pulse_oximeter |-> E, pulse |-> E, respirations |-> E,
         repeat_blood_pressure_systolic |-> E, repeat_blood_pressure_diastolic |-> E,
         bp_abnormal |-> FALSE],
     physical_assessment |->
        [general_appearance |-> "", skin_assessment |-> "", mobility_level |-> "",
         speech_level |-> "", alert_oriented_level |-> ""],
     head_to_toe |->
        [head_neck |-> "", eyes_vision |-> "", ears_hearing |-> "",
         nose_nasal_cavity |-> "", mouth_teeth_oral_cavity |-> ""],
     gastrointestinal |->
        [last_bowel_movement |-> "", bowel_sounds |-> "", nutritional_diet |-> ""],
     genito_urinary |-> [toileting_level |-> ""],
     respiratory |-> [lung_sounds |-> "", oxygen_type |-> ""],
     endocrine |-> [is_diabetic |-> FALSE, diabetic_notes |-> "", blood_sugar |-> ""],
     changes_since_last |->
        [medication_changes |-> "", diagnosis_changes |-> "",
         er_urgent_care_visits |-> "", upcoming_appointments |-> ""],
     overall_health_status |-> "",
     nurse_notes |-> ""]

initialInterventionData ==
    [patient_id |-> patientId,
     intervention_date |-> Today,
     location |-> "",
     body_temperature |-> "",
     mood_scale |-> Null,
     intervention_type |-> "injection",
     injection_details |->
        [is_vaccination |-> TRUE, vaccination_type |-> "", vaccination_other |-> "",
         non_vaccination_type |-> "", non_vaccination_other |-> "",
         dose |-> "", route |-> "", site |-> "",
         verified_no_allergic_reaction |-> FALSE,
         cleaned_injection_site |-> FALSE,
         adhered_8_rights |-> FALSE],
     test_details |->
        [test_type |-> "", test_other |-> "", tb_placement_site |-> "", tb_arm |-> "",
         result |-> "", notes |-> ""],
     treatment_details |-> [treatment_type |-> "", treatment_other |-> "", notes |-> ""],
     procedure_details |->
        [procedure_type |-> "", procedure_other |-> "", body_site |-> "",
         suture_count |-> "", ear_side |-> "", notes |-> ""],
     verified_patient_identity |-> FALSE,
     donned_proper_ppe |-> FALSE,
     notes |-> ""]

initialUnableToContactData ==
    [patient_id |-> patientId,
     visit_type |-> "nurse_visit",
     attempt_date |-> Today,
     attempt_time |-> "now",
     attempt_location |-> "",
     attempt_location_other |-> "",
     spoke_with_anyone |-> FALSE,
     spoke_with_whom |-> "",
     individual_location |-> "",
     individual_location_other |-> "",
     expected_return_date |-> "",
     admission_date |-> "",
     admission_reason |-> "",
     additional_info |-> ""]

(***************************************************************************)
(* Parts of the initial state                                              *)
(***************************************************************************)
BPIdle ==
    /\ argSys = Num(0) /\ argDia = Num(0) /\ bpCalled = FALSE /\ bpResult = FALSE

FormsFresh ==
    /\ visitData = initialVisitData /\ bpAbnormal = FALSE
    /\ iForm = initialInterventionData
    /\ uForm = initialUnableToContactData
    /\ patient = Null /\ saving = FALSE /\ editsWhileSaving = 0 /\ edits = 0
    /\ loginLoading = FALSE /\ loginError = ""
    /\ created = <<>> /\ toasts = <<>>
    /\ visit = <<>> /\ detailPatient = <<>> /\ downloads = <<>> /\ clock = 0
    /\ visitType = "" /\ organization = ""
    /\ ssVisitType = Null /\ ssOrganization = Null

LoggedIn ==
    /\ lsToken = "tokA" /\ lsData = JSONstringify("nurseA")
    /\ nurse = "nurseA" /\ authLoading = FALSE
    /\ pendingHref = Null

(***************************************************************************)
(* SpecBP: isBloodPressureAbnormal called on integer readings              *)
(***************************************************************************)
InitBP ==
    /\ argSys \in {Num(n) : n \in Readings}
    /\ argDia \in {Num(n) : n \in Readings}
    /\ bpCalled = FALSE /\ bpResult = FALSE
    /\ LoggedIn /\ FormsFresh
    /\ path = "/dashboard" /\ net = <<>> /\ pageLoading = FALSE
    /\ lastHandler = <<"init">>

CallBP ==
    /\ ~bpCalled
    /\ bpCalled' = TRUE
    /\ bpResult' = isBloodPressureAbnormal(argSys, argDia)
    /\ UNCHANGED <<argSys, argDia, authVars, navVars, net, created, toasts, lastHandler,
                   loginVars, pageVars, formVars, pdfVars, typeVars>>

NextBP == CallBP
SpecBP == InitBP /\ [][NextBP]_vars

\* C2: for integer readings the result is exactly
\* systolic >= 140 or diastolic >= 90 or systolic < 90 or diastolic < 60
C2_Threshold ==
    bpCalled =>
        (bpResult <=> (argSys.n >= 140 \/ argDia.n >= 90 \/ argSys.n < 90 \/ argDia.n < 60))

\* the examples and boundary values named by the claim
C2_Examples ==
    LET at(s, d) == argSys = Num(s) /\ argDia = Num(d) /\ bpCalled
    IN  /\ at(120, 80) => ~bpResult
        /\ at(139, 89) => ~bpResult
        /\ at(90, 60) => ~bpResult
        /\ (at(145, 80) \/ at(110, 95) \/ at(85, 70) \/ at(100, 55)) => bpResult
        /\ (at(140, 80) \/ at(120, 90) \/ at(89, 80) \/ at(120, 59)) => bpResult

C2_isBloodPressureAbnormal == C2_Threshold /\ C2_Examples

C2_Witness ==
    /\ bpCalled /\ argSys = Num(140) /\ argDia = Num(89) /\ bpResult

(***************************************************************************)
(* AuthProvider (contexts/AuthContext), LoginPage, RegisterPage, logout,   *)
(* and the browser loading the application                                 *)
(***************************************************************************)
AuthProvider_useEffect_TokenOnly(token, savedNurse) ==
    IF token # Null
    THEN [nurse |-> IF savedNurse = NoItem THEN Null ELSE JSONparse(savedNurse),
          loading |-> TRUE,
          net |-> <<Request("auth.me", NoPayload)>>]
    ELSE [nurse |-> Null, loading |-> FALSE, net |-> <<>>]

\* the mount effect of AuthProvider, after useState(null) and useState(true)
AuthProvider_useEffect(token, savedNurse) ==
    IF token # Null /\ savedNurse # NoItem
    THEN [nurse |-> JSONparse(savedNurse), loading |-> TRUE,
          net |-> <<Request("auth.me", NoPayload)>>]
    ELSE [nurse |-> Null, loading |-> FALSE, net |-> <<>>]

\* page components start from their initial state
PagesFresh ==
    /\ visitData' = initialVisitData /\ bpAbnormal' = FALSE
    /\ iForm' = initialInterventionData
    /\ uForm' = initialUnableToContactData
    /\ patient' = Null /\ saving' = FALSE /\ pageLoading' = FALSE
    /\ editsWhileSaving' = 0 /\ edits' = 0
    /\ loginLoading' = FALSE /\ loginError' = ""
    /\ visitType' = "" /\ organization' = ""

\* A document load: the one forced by window.location.href, else the user opening
\* or refreshing a URL.  Script state is lost and pending requests are abandoned.
BrowserLoad(p) ==
    /\ IF pendingHref # Null THEN p = pendingHref ELSE p \in Paths
    /\ LET h == AuthProvider_useEffect(lsToken, lsData)
       IN  /\ nurse' = h.nurse
           /\ authLoading' = h.loading
           /\ net' = h.net
    /\ path' = p
    /\ pendingHref' = Null
    /\ PagesFresh
    /\ toasts' = <<>>
    /\ lastHandler' = <<"load">>
    /\ UNCHANGED <<lsToken, lsData, created, bpVars, pdfVars, ssVisitType, ssOrganization>>

IsNavigate(v) == v[1] = "Navigate"

\* <Navigate to=... replace />
Redirect ==
    /\ IsNavigate(View)
    /\ path' = View[2]
    /\ net' = Unmount(net)
    /\ lastHandler' = <<"Navigate">>
    /\ UNCHANGED <<authVars, pendingHref, created, toasts, loginVars, pageVars,
                   formVars, bpVars, pdfVars, typeVars>>

\* links and buttons that only change the route
Links ==
    {<<Page("LoginPage"), "/register">>, <<Page("RegisterPage"), "/login">>,
     <<Page("DashboardPage"), PatientPath>>,
     <<Page("PatientDetailPage"), "/dashboard">>,
     <<Page("PatientDetailPage"), NewVisitPath>>,
     <<Page("PatientDetailPage"), VisitPath>>,
     <<Page("NewVisitPage"), PatientPath>>,
     <<Page("VisitDetailPage"), PatientPath>>}

Link(p) ==
    /\ <<View, p>> \in Links
    /\ path' = p
    /\ net' = Unmount(net)
    /\ loginLoading' = FALSE /\ loginError' = ""
    /\ lastHandler' = <<"Link">>
    /\ UNCHANGED <<authVars, pendingHref, created, toasts, pageVars, formVars, bpVars, pdfVars, typeVars>>

\* LoginPage.handleSubmit / RegisterPage.handleSubmit up to the await
AuthSubmit(page, op) ==
    /\ View = Page(page)
    /\ ~loginLoading                     \* the submit button is disabled={loading}
    /\ Len(net) < MaxInflight
    /\ loginError' = ""
    /\ loginLoading' = TRUE
    /\ net' = Append(net, Request(op, NoPayload))
    /\ toasts' = <<>>
    /\ lastHandler' = <<page \o ".handleSubmit">>
    /\ UNCHANGED <<authVars, navVars, created, pageVars, formVars, bpVars, pdfVars, typeVars>>

LoginSubmit == AuthSubmit("LoginPage", "auth.login")
RegisterSubmit == AuthSubmit("RegisterPage", "auth.register")

\* the response to login or register: interceptor, AuthContext.login/register, then
\* the page's try/catch/finally
AuthSettle(i, op, status, token, nurseData) ==
    /\ i \in DOMAIN net /\ net[i].op = op
    /\ LET r == interceptors_response(status, Browser)
           alive == net[i].alive
       IN  IF ~r.rejected
           THEN /\ lsToken' = token
                /\ lsData' = JSONstringify(nurseData)
                /\ nurse' = nurseData
                /\ toasts' = <<"success">>
                /\ path' = "/dashboard"
                /\ pendingHref' = r.href
                /\ net' = Unmount(RemoveAt(net, i))
                /\ loginLoading' = (IF alive THEN FALSE ELSE loginLoading)
                /\ loginError' = loginError
                /\ lastHandler' = <<op, "then", status>>
           ELSE /\ lsToken' = r.token
                /\ lsData' = r.data
                /\ pendingHref' = r.href
                /\ nurse' = nurse
                /\ toasts' = <<>>
                /\ path' = path
                /\ net' = RemoveAt(net, i)
                /\ loginLoading' = (IF alive THEN FALSE ELSE loginLoading)
                /\ loginError' = (IF alive THEN "failed" ELSE loginError)
                /\ lastHandler' = <<op, "catch", status>>
    /\ UNCHANGED <<authLoading, created, pageVars, formVars, bpVars, pdfVars, typeVars>>

LoginSettle(i, status, token, nurseData) == AuthSettle(i, "auth.login", status, token, nurseData)
RegisterSettle(i, status, token, nurseData) ==
    AuthSettle(i, "auth.register", status, token, nurseData)

GetMeSettle_NoFinally(i, status, data) ==
    /\ i \in DOMAIN net /\ net[i].op = "auth.me"
    /\ LET r == interceptors_response(status, Browser)
       IN  IF ~r.rejected
           THEN /\ nurse' = data
                /\ lsData' = JSONstringify(data)
                /\ lsToken' = r.token
                /\ pendingHref' = r.href
                /\ authLoading' = FALSE
                /\ lastHandler' = <<"auth.me", "then", status>>
           ELSE /\ lsToken' = Null
                /\ lsData' = NoItem
                /\ nurse' = Null
                /\ pendingHref' = r.href
                /\ authLoading' = authLoading
                /\ lastHandler' = <<"auth.me", "catch", status>>
    /\ net' = RemoveAt(net, i)
    /\ toasts' = <<>>
    /\ UNCHANGED <<path, created, loginVars, pageVars, formVars, bpVars, pdfVars, typeVars>>

\* the response to the getMe of the mount effect: .then / .catch / .finally
GetMeSettle(i, status, data) ==
    /\ i \in DOMAIN net /\ net[i].op = "auth.me"
    /\ LET r == interceptors_response(status, Browser)
       IN  IF ~r.rejected
           THEN /\ nurse' = data
                /\ lsData' = JSONstringify(data)
                /\ lsToken' = r.token
                /\ pendingHref' = r.href
                /\ lastHandler' = <<"auth.me", "then", status>>
           ELSE /\ lsToken' = Null
                /\ lsData' = NoItem
                /\ nurse' = Null
                /\ pendingHref' = r.href
                /\ lastHandler' = <<"auth.me", "catch", status>>
    /\ authLoading' = FALSE
    /\ net' = RemoveAt(net, i)
    /\ toasts' = <<>>
    /\ UNCHANGED <<path, created, loginVars, pageVars, formVars, bpVars, pdfVars, typeVars>>

Logout_TokenOnly ==
    /\ View = Page("DashboardPage")
    /\ lsToken' = Null
    /\ lsData' = lsData
    /\ nurse' = Null
    /\ path' = "/login"
    /\ net' = Unmount(net)
    /\ toasts' = <<>>
    /\ lastHandler' = <<"handleLogout">>
    /\ UNCHANGED <<authLoading, pendingHref, created, loginVars, pageVars, formVars, bpVars, pdfVars, typeVars>>

\* DashboardPage.handleLogout: logout() then navigate('/login')
Logout ==
    /\ View = Page("DashboardPage")
    /\ lsToken' = Null
    /\ lsData' = NoItem
    /\ nurse' = Null
    /\ path' = "/login"
    /\ net' = Unmount(net)
    /\ toasts' = <<>>
    /\ lastHandler' = <<"handleLogout">>
    /\ UNCHANGED <<authLoading, pendingHref, created, loginVars, pageVars, formVars, bpVars, pdfVars, typeVars>>

\* a protected page loading its data (DashboardPage.fetchPatients and the like)
FetchData ==
    /\ View \in ProtectedPages
    /\ Len(net) < MaxInflight
    /\ net' = Append(net, Request("data", NoPayload))
    /\ toasts' = <<>>
    /\ lastHandler' = <<"fetch">>
    /\ UNCHANGED <<authVars, navVars, created, loginVars, pageVars, formVars, bpVars, pdfVars, typeVars>>

FetchDataSettle(i, status) ==
    /\ i \in DOMAIN net /\ net[i].op = "data"
    /\ LET r == interceptors_response(status, Browser)
       IN  /\ lsToken' = r.token
           /\ lsData' = r.data
           /\ pendingHref' = r.href
           /\ toasts' = (IF r.rejected THEN <<"Failed to load patients">> ELSE <<>>)
           /\ lastHandler' = <<"data", IF r.rejected THEN "catch" ELSE "then", status>>
    /\ net' = RemoveAt(net, i)
    /\ UNCHANGED <<nurse, authLoading, path, created, loginVars, pageVars, formVars, bpVars, pdfVars, typeVars>>

InitAuth ==
    /\ \/ lsToken = Null /\ lsData = NoItem
       \/ lsToken \in Tokens /\ lsData \in {JSONstringify(n) : n \in Profiles}
    /\ path \in Paths
    /\ LET h == AuthProvider_useEffect(lsToken, lsData)
       IN  nurse = h.nurse /\ authLoading = h.loading /\ net = h.net
    /\ pendingHref = Null
    /\ FormsFresh /\ pageLoading = FALSE
    /\ BPIdle
    /\ lastHandler = <<"load">>

NextAuth ==
    \/ \E p \in Paths : BrowserLoad(p)
    \/ Redirect
    \/ \E p \in Paths : Link(p)
    \/ LoginSubmit
    \/ RegisterSubmit
    \/ \E i \in 1..MaxInflight, s \in Statuses, t \in Tokens, n \in Profiles :
          LoginSettle(i, s, t, n)
    \/ \E i \in 1..MaxInflight, s \in Statuses, t \in Tokens, n \in Profiles :
          RegisterSettle(i, s, t, n)
    \/ \E i \in 1..MaxInflight, s \in Statuses, n \in Profiles : GetMeSettle(i, s, n)
    \/ Logout
    \/ FetchData
    \/ \E i \in 1..MaxInflight, s \in Statuses : FetchDataSettle(i, s)

SpecAuth == InitAuth /\ [][NextAuth]_vars

\* the application started with whatever the two storage items hold
InitHydrate ==
    /\ lsToken \in {Null} \cup Tokens
    /\ lsData \in {NoItem} \cup {JSONstringify(n) : n \in Profiles}
    /\ path \in Paths
    /\ LET h == AuthProvider_useEffect(lsToken, lsData)
       IN  nurse = h.nurse /\ authLoading = h.loading /\ net = h.net
    /\ pendingHref = Null
    /\ FormsFresh /\ pageLoading = FALSE
    /\ BPIdle
    /\ lastHandler = <<"load">>

SpecHydrate == InitHydrate /\ [][NextAuth]_vars

\* C28: after a start with both items in storage loading is true, the cached nurse is
\* shown to no page and one getMe request is pending; after a start with one of them
\* missing loading is false, nurse is null and nothing is pending.  Loading is true
\* exactly while the getMe request is pending, and no protected or public page is
\* rendered meanwhile.  After getMe succeeded loading is false and nurse is the profile
\* the server sent (also stored); after it failed loading is false, nurse is null and
\* both items are removed.
C28_Hydration ==
    /\ lastHandler = <<"load">> =>
          IF lsToken # Null /\ lsData # NoItem
          THEN /\ authLoading /\ nurse = JSONparse(lsData)
               /\ net = <<Request("auth.me", NoPayload)>>
          ELSE ~authLoading /\ nurse = Null /\ net = <<>>
    /\ authLoading <=> Pending(net, "auth.me") # {}
    /\ authLoading => View \notin (ProtectedPages \cup PublicPages)
    /\ lastHandler = <<"auth.me", "then", 200>> =>
          ~authLoading /\ nurse \in Profiles /\ lsData = JSONstringify(nurse)
    /\ (Len(lastHandler) = 3 /\ lastHandler[1] = "auth.me" /\ lastHandler[2] = "catch") =>
          ~authLoading /\ nurse = Null /\ lsToken = Null /\ lsData = NoItem

C28_Witness ==
    /\ lastHandler = <<"auth.me", "then", 200>>
    /\ ~authLoading /\ nurse = "nurseB"
    /\ lsToken = "tokA" /\ lsData = JSONstringify("nurseB")
    /\ View = Page("DashboardPage")

\* C29: started with nurse_token and nurse_data both absent or both present, local
\* storage holds both or neither after any interleaving of login, register, logout,
\* hydration and 401 responses
C29_StoragePaired == (lsToken = Null) <=> (lsData = NoItem)

\* a login that succeeded after a 401 had removed the credentials and asked for the
\* load of /login, which has not happened yet
C29_Witness ==
    /\ lastHandler = <<"auth.login", "then", 200>>
    /\ pendingHref = "/login"
    /\ lsToken = "tokB" /\ lsData = JSONstringify("nurseB")

\* C8: a response with status 401, to whichever request, leaves nurse_token and
\* nurse_data removed and window.location.href set to /login, and the caller's
\* rejection branch has run
C8_Unauthorized ==
    (Len(lastHandler) = 3 /\ lastHandler[3] = 401) =>
        /\ lsToken = Null
        /\ lsData = NoItem
        /\ pendingHref = "/login"
        /\ lastHandler[2] = "catch"

C8_Witness ==
    /\ lastHandler = <<"data", "catch", 401>>
    /\ nurse # Null
    /\ lsToken = Null /\ lsData = NoItem /\ pendingHref = "/login"

\* C9 as claimed: nurse_token or nurse_data is removed only by logout or by a
\* response with status 401
C9_OnlyLogoutOr401Clears ==
    [][((lsToken # Null /\ lsToken' = Null) \/ (lsData # NoItem /\ lsData' = NoItem))
         => \/ lastHandler' = <<"handleLogout">>
            \/ (Len(lastHandler') = 3 /\ lastHandler'[3] = 401)]_vars

D3(a, b, c) == Str(<<a, b, c>>)
D2(a, b) == Str(<<a, b>>)

\* values the nurse types into the inputs
SysTyped == {E, D3("1", "2", "0"), D3("1", "5", "0"), D2("8", "5")}
DiaTyped == {E, D2("8", "0"), D2("9", "5"), D2("5", "5")}
OtherTyped == {E, Str(<<"7">>)}

\* the inputs of the Vital Signs card that the model types into (the other four,
\* body_temperature, pulse_oximeter, pulse and respirations, are wired like weight)
VitalInputs ==
    {"weight", "blood_pressure_systolic", "blood_pressure_diastolic",
     "repeat_blood_pressure_systolic", "repeat_blood_pressure_diastolic"}
RepeatInputs == {"repeat_blood_pressure_systolic", "repeat_blood_pressure_diastolic"}

TypedValues(field) ==
    CASE field = "blood_pressure_systolic" -> SysTyped
      [] field = "blood_pressure_diastolic" -> DiaTyped
      [] OTHER -> OtherTyped

\* patient.last_vitals as the backend returns it: absent, or the vital signs of the
\* last visit
LastVitals(sys, dia) ==
    [initialVisitData.vital_signs EXCEPT
        !.blood_pressure_systolic = Num(sys),
        !.blood_pressure_diastolic = Num(dia),
        !.pulse = Num(72),
        !.bp_abnormal = isBloodPressureAbnormal(Num(sys), Num(dia))]
NoLastVitals == <<>>
\* a last visit that recorded two readings only
PartialLastVitals == [weight |-> Num(70), pulse |-> Num(72)]
LastVitalsChoices ==
    {NoLastVitals, <<LastVitals(120, 80)>>, <<LastVitals(150, 80)>>, <<PartialLastVitals>>}

Spread_KeepsFirst(a, b) ==
    [k \in (DOMAIN a) \cup (DOMAIN b) |-> IF k \in DOMAIN a THEN a[k] ELSE b[k]]

\* object spread { ...a, ...b }
Spread(a, b) ==
    [k \in (DOMAIN a) \cup (DOMAIN b) |-> IF k \in DOMAIN b THEN b[k] ELSE a[k]]

updateVitalSign(prev, field, value) ==
    [prev EXCEPT !.vital_signs = [prev.vital_signs EXCEPT ![field] = value]]

\* the effect on [blood_pressure_systolic, blood_pressure_diastolic]
bpEffect_Recompute(vd) ==
    LET vs == vd.vital_signs
        abnormal == isBloodPressureAbnormal(vs.blood_pressure_systolic,
                                            vs.blood_pressure_diastolic)
    IN  [bpAbnormal |-> abnormal, visitData |-> updateVitalSign(vd, "bp_abnormal", abnormal)]

bpEffect(vd) ==
    LET vs == vd.vital_signs
        abnormal == isBloodPressureAbnormal(vs.blood_pressure_systolic,
                                            vs.blood_pressure_diastolic)
    IN  [bpAbnormal |-> abnormal,
         visitData |-> IF abnormal /\ ~vs.bp_abnormal
                       THEN updateVitalSign(vd, "bp_abnormal", TRUE)
                       ELSE vd]

AfterRender_SystolicOnly(old, new) ==
    IF old.vital_signs.blood_pressure_systolic # new.vital_signs.blood_pressure_systolic
    THEN bpEffect(new)
    ELSE [bpAbnormal |-> bpAbnormal, visitData |-> new]

\* a render after visitData went from old to new: the effect runs when one of its
\* two dependencies changed
AfterRender(old, new) ==
    IF \/ old.vital_signs.blood_pressure_systolic # new.vital_signs.blood_pressure_systolic
       \/ old.vital_signs.blood_pressure_diastolic # new.vital_signs.blood_pressure_diastolic
    THEN bpEffect(new)
    ELSE [bpAbnormal |-> bpAbnormal, visitData |-> new]

\* the form is rendered once loading is false, while the route shows the page
FormShown(p) == path = p /\ ~pageLoading /\ pendingHref = Null

\* an onChange event; those arriving while a save is pending are counted
InputEvent ==
    /\ saving => editsWhileSaving < MaxEditsWhileSaving
    /\ editsWhileSaving' = (IF saving THEN editsWhileSaving + 1 ELSE editsWhileSaving)

\* fetchPatient of NewVisitPage settling
NewVisit_fetchPatient(i, status, lastVitals) ==
    /\ i \in DOMAIN net /\ net[i].op = "visit.patients.get"
    /\ LET r == interceptors_response(status, Browser)
           alive == net[i].alive
           filled == IF lastVitals # NoLastVitals
                     THEN [visitData EXCEPT
                              !.vital_signs = Spread(visitData.vital_signs, lastVitals[1])]
                     ELSE visitData
           after == AfterRender(visitData, filled)
       IN  /\ lsToken' = r.token /\ lsData' = r.data /\ pendingHref' = r.href
           /\ IF ~r.rejected
              THEN /\ patient' = (IF alive THEN [last_vitals |-> lastVitals] ELSE patient)
                   /\ visitData' = (IF alive THEN after.visitData ELSE visitData)
                   /\ bpAbnormal' = (IF alive THEN after.bpAbnormal ELSE bpAbnormal)
                   /\ toasts' = <<>>
                   /\ path' = path
                   /\ net' = RemoveAt(net, i)
                   /\ lastHandler' = <<"visit.patients.get", "then", status>>
              ELSE /\ toasts' = <<"Failed to load patient">>
                   /\ path' = "/dashboard"
                   /\ net' = Unmount(RemoveAt(net, i))
                   /\ lastHandler' = <<"visit.patients.get", "catch", status>>
                   /\ UNCHANGED <<patient, visitData, bpAbnormal>>
           /\ pageLoading' = (IF alive THEN FALSE ELSE pageLoading)
    /\ UNCHANGED <<nurse, authLoading, created, loginVars, saving, editsWhileSaving, edits,
                   iForm, uForm, bpVars, pdfVars, typeVars>>

\* onChange of a vital-sign input: updateVitalSign, then the render and its effect
NewVisit_updateVitalSign(field, value) ==
    /\ FormShown(NewVisitPath)
    /\ field \in RepeatInputs => bpAbnormal     \* shown only when bpAbnormal
    /\ LET after == AfterRender(visitData, updateVitalSign(visitData, field, value))
       IN  /\ visitData' = after.visitData
           /\ bpAbnormal' = after.bpAbnormal
    /\ InputEvent
    /\ lastHandler' = <<"updateVitalSign">>
    /\ UNCHANGED <<authVars, navVars, net, created, toasts, loginVars, patient, edits,
                   pageLoading, saving, iForm, uForm, bpVars, pdfVars, typeVars>>

NewVisit_handleSubmit_NoLock ==
    /\ FormShown(NewVisitPath)
    /\ Len(net) < MaxInflight
    /\ saving' = TRUE
    /\ editsWhileSaving' = 0
    /\ net' = Append(net, Request("visits.create", visitData))
    /\ toasts' = <<>>
    /\ lastHandler' = <<"NewVisitPage.handleSubmit">>
    /\ UNCHANGED <<authVars, navVars, created, loginVars, patient, edits, pageLoading,
                   formVars, bpVars, pdfVars, typeVars>>

\* handleSubmit of NewVisitPage up to the await
NewVisit_handleSubmit ==
    /\ FormShown(NewVisitPath)
    /\ ~saving                             \* both save buttons are disabled={saving}
    /\ Len(net) < MaxInflight
    /\ saving' = TRUE
    /\ editsWhileSaving' = 0
    /\ net' = Append(net, Request("visits.create", visitData))
    /\ toasts' = <<>>
    /\ lastHandler' = <<"NewVisitPage.handleSubmit">>
    /\ UNCHANGED <<authVars, navVars, created, loginVars, patient, edits, pageLoading,
                   formVars, bpVars, pdfVars, typeVars>>

CreateSettle_NoFinally(i, op, status, okMsg, failMsg) ==
    /\ i \in DOMAIN net /\ net[i].op = op
    /\ LET r == interceptors_response(status, Browser)
           alive == net[i].alive
       IN  /\ lsToken' = r.token /\ lsData' = r.data /\ pendingHref' = r.href
           /\ IF ~r.rejected
              THEN /\ created' = Append(created, [op |-> op, data |-> net[i].payload])
                   /\ toasts' = <<okMsg>>
                   /\ path' = PatientPath
                   /\ net' = Unmount(RemoveAt(net, i))
                   /\ lastHandler' = <<op, "then", status>>
                   /\ saving' = (IF alive THEN FALSE ELSE saving)
              ELSE /\ created' = created
                   /\ toasts' = <<failMsg>>
                   /\ path' = path
                   /\ net' = RemoveAt(net, i)
                   /\ lastHandler' = <<op, "catch", status>>
                   /\ saving' = saving
           /\ editsWhileSaving' = 0
    /\ UNCHANGED <<nurse, authLoading, loginVars, patient, edits, pageLoading, formVars,
                   bpVars, pdfVars, typeVars>>

\* the create request of a form page settling: try / catch / finally of handleSubmit
CreateSettle(i, op, status, okMsg, failMsg) ==
    /\ i \in DOMAIN net /\ net[i].op = op
    /\ LET r == interceptors_response(status, Browser)
           alive == net[i].alive
       IN  /\ lsToken' = r.token /\ lsData' = r.data /\ pendingHref' = r.href
           /\ IF ~r.rejected
              THEN /\ created' = Append(created, [op |-> op, data |-> net[i].payload])
                   /\ toasts' = <<okMsg>>
                   /\ path' = PatientPath
                   /\ net' = Unmount(RemoveAt(net, i))
                   /\ lastHandler' = <<op, "then", status>>
              ELSE /\ created' = created
                   /\ toasts' = <<failMsg>>
                   /\ path' = path
                   /\ net' = RemoveAt(net, i)
                   /\ lastHandler' = <<op, "catch", status>>
           /\ saving' = (IF alive THEN FALSE ELSE saving)
           /\ editsWhileSaving' = 0
    /\ UNCHANGED <<nurse, authLoading, loginVars, patient, edits, pageLoading, formVars, bpVars, pdfVars, typeVars>>

NewVisit_createSettle(i, status) ==
    CreateSettle(i, "visits.create", status, "Visit saved successfully", "Failed to save visit")

\* the back button of a form page: navigate(`/patients/${patientId}`)
BackToPatient(p) ==
    /\ FormShown(p)
    /\ path' = PatientPath
    /\ net' = Unmount(net)
    /\ lastHandler' = <<"back">>
    /\ UNCHANGED <<authVars, pendingHref, created, toasts, loginVars, pageVars,
                   formVars, bpVars, pdfVars, typeVars>>

\* the document load that window.location.href = '/login' forces
ForcedLoad == pendingHref # Null /\ BrowserLoad(pendingHref)

InitVisit ==
    /\ LoggedIn /\ FormsFresh /\ BPIdle
    /\ path = NewVisitPath
    /\ pageLoading = TRUE
    /\ net = <<Request("visit.patients.get", NoPayload)>>
    /\ lastHandler = <<"mount">>

NextVisit ==
    \/ \E i \in 1..MaxInflight, s \in Statuses, lv \in LastVitalsChoices :
          NewVisit_fetchPatient(i, s, lv)
    \/ \E f \in VitalInputs : \E v \in TypedValues(f) : NewVisit_updateVitalSign(f, v)
    \/ NewVisit_handleSubmit
    \/ \E i \in 1..MaxInflight, s \in Statuses : NewVisit_createSettle(i, s)
    \/ BackToPatient(NewVisitPath)
    \/ ForcedLoad

SpecVisit == InitVisit /\ [][NextVisit]_vars

AbnormalPair(vs) ==
    isBloodPressureAbnormal(vs.blood_pressure_systolic, vs.blood_pressure_diastolic)

\* C1 as claimed: the bp_abnormal held in the form state, and the one in every visit
\* handleSubmit sends, is true exactly when the current pair is out of range
C1_FlagMatchesPair ==
    /\ visitData.vital_signs.bp_abnormal <=> AbnormalPair(visitData.vital_signs)
    /\ \A i \in DOMAIN net :
          net[i].op = "visits.create" =>
             (net[i].payload.vital_signs.bp_abnormal
                 <=> AbnormalPair(net[i].payload.vital_signs))

\* C25: while the new-visit form stays mounted, a step never takes the stored
\* vital_signs.bp_abnormal from true to false; it changes only by being set to true
C25_FlagMonotone ==
    [][lastHandler' # <<"load">> =>
         /\ visitData.vital_signs.bp_abnormal => visitData'.vital_signs.bp_abnormal
         /\ (visitData'.vital_signs.bp_abnormal # visitData.vital_signs.bp_abnormal) =>
               /\ visitData'.vital_signs.bp_abnormal = TRUE
               /\ \/ lastHandler' = <<"updateVitalSign">> /\ bpAbnormal'
                  \/ lastHandler' = <<"visit.patients.get", "then", 200>>]_vars

\* typed 150 over 80, then corrected to 120 over 80: the display flag is off, the
\* stored flag is still on
C25_Witness ==
    /\ lastHandler = <<"updateVitalSign">>
    /\ patient = [last_vitals |-> NoLastVitals]
    /\ visitData.vital_signs.blood_pressure_systolic = D3("1", "2", "0")
    /\ visitData.vital_signs.blood_pressure_diastolic = D2("8", "0")
    /\ ~bpAbnormal
    /\ visitData.vital_signs.bp_abnormal

RepeatValues(vs) ==
    <<vs.repeat_blood_pressure_systolic, vs.repeat_blood_pressure_diastolic>>

\* C26: after every step the display flag bpAbnormal is isBloodPressureAbnormal of the
\* systolic and diastolic values the form holds; the repeat inputs take input only
\* while bpAbnormal is true; what was typed into them stays when a later edit turns
\* bpAbnormal off, and goes out with the visit handleSubmit sends
C26_RepeatInputs ==
    [][/\ FormShown(NewVisitPath)' => (bpAbnormal' <=> AbnormalPair(visitData'.vital_signs))
       /\ (/\ lastHandler' = <<"updateVitalSign">>
           /\ RepeatValues(visitData'.vital_signs) # RepeatValues(visitData.vital_signs))
             => bpAbnormal
       /\ (lastHandler' = <<"updateVitalSign">> /\ bpAbnormal /\ ~bpAbnormal')
             => RepeatValues(visitData'.vital_signs) = RepeatValues(visitData.vital_signs)
       /\ lastHandler' = <<"NewVisitPage.handleSubmit">>
             => /\ Len(net') = Len(net) + 1
                /\ RepeatValues(net'[Len(net')].payload.vital_signs)
                      = RepeatValues(visitData.vital_signs)]_vars

\* a repeat reading typed while the inputs were shown, the pair then corrected to
\* 120 over 80, and the visit submitted with the repeat reading in it
C26_Witness ==
    /\ lastHandler = <<"NewVisitPage.handleSubmit">>
    /\ ~bpAbnormal
    /\ visitData.vital_signs.blood_pressure_systolic = D3("1", "2", "0")
    /\ visitData.vital_signs.blood_pressure_diastolic = D2("8", "0")
    /\ visitData.vital_signs.repeat_blood_pressure_systolic = Str(<<"7">>)
    /\ net[Len(net)].op = "visits.create"
    /\ net[Len(net)].payload.vital_signs.repeat_blood_pressure_systolic = Str(<<"7">>)

PendingVisits == {i \in DOMAIN net : net[i].op = "visits.create"}

\* C18 as claimed: while the first create request of the form is pending (and the
\* client can hold another request), Save can be triggered again and issues a second
\* create request
C18_SecondSaveIssuesRequest ==
    (FormShown(NewVisitPath) /\ PendingVisits # {} /\ Len(net) < MaxInflight)
        => ENABLED NewVisit_handleSubmit

\* C18 amended: the save buttons are disabled while saving, which is set from the
\* submission until its request settles: at no time are two create requests of the
\* form pending, and a pending create request of the shown form means saving is set
C18_SubmitLocked ==
    /\ Cardinality(PendingVisits) <= 1
    /\ (FormShown(NewVisitPath) /\ \E i \in PendingVisits : net[i].alive) => saving

C18_Witness ==
    /\ FormShown(NewVisitPath)
    /\ saving /\ editsWhileSaving = 1
    /\ Cardinality(PendingVisits) = 1
    /\ Len(net) < MaxInflight
    /\ lastHandler = <<"updateVitalSign">>

PatientLoaded == lastHandler = <<"visit.patients.get", "then", 200>>

\* C12: once the patient is loaded, with last_vitals every key of it holds its value
\* in vital_signs, vital_signs has the keys of the defaults and every other section
\* and top-level field is the default; without last_vitals the form state is the
\* defaults
C12_Prefill ==
    PatientLoaded =>
        IF patient.last_vitals = NoLastVitals
        THEN visitData = initialVisitData
        ELSE LET lv == patient.last_vitals[1]
             IN  /\ \A k \in DOMAIN lv : visitData.vital_signs[k] = lv[k]
                 /\ DOMAIN visitData.vital_signs = DOMAIN initialVisitData.vital_signs
                 /\ \A k \in (DOMAIN visitData) \ {"vital_signs"} :
                       visitData[k] = initialVisitData[k]
                 /\ DOMAIN visitData = DOMAIN initialVisitData

C12_Witness ==
    /\ PatientLoaded
    /\ patient.last_vitals = <<LastVitals(150, 80)>>
    /\ visitData.vital_signs.blood_pressure_systolic = Num(150)
    /\ visitData.vital_signs.pulse = Num(72)
    /\ visitData.vital_signs.weight = E
    /\ visitData.endocrine = initialVisitData.endocrine

(***************************************************************************)
(* NewVisitPage: the field setters of every card                           *)
(***************************************************************************)
Sections ==
    {"vital_signs", "physical_assessment", "head_to_toe", "gastrointestinal",
     "genito_urinary", "respiratory", "endocrine", "changes_since_last"}
TopLevel == {"visit_date", "overall_health_status", "nurse_notes"}

updateSection_NoSpread(prev, section, field, value) ==
    Spread(prev, section :> (field :> value))

\* setVisitData(prev => ({ ...prev, <section>: { ...prev.<section>, [field]: value } }))
updateSection(prev, section, field, value) ==
    Spread(prev, section :> Spread(prev[section], field :> value))

updatePhysicalAssessment(prev, field, value) ==
    updateSection(prev, "physical_assessment", field, value)
updateHeadToToe(prev, field, value) == updateSection(prev, "head_to_toe", field, value)
updateGI(prev, field, value) == updateSection(prev, "gastrointestinal", field, value)
updateGU(prev, field, value) == updateSection(prev, "genito_urinary", field, value)
updateRespiratory(prev, field, value) == updateSection(prev, "respiratory", field, value)
updateEndocrine(prev, field, value) == updateSection(prev, "endocrine", field, value)
updateChanges(prev, field, value) == updateSection(prev, "changes_since_last", field, value)

\* setVisitData(prev => ({ ...prev, [field]: value })) of visit_date,
\* overall_health_status and nurse_notes
setTopLevel(prev, field, value) == Spread(prev, field :> value)

\* the setter an input of the given card calls
SetterOf(prev, section, field, value) ==
    CASE section = "" -> setTopLevel(prev, field, value)
      [] section = "vital_signs" -> updateVitalSign(prev, field, value)
      [] section = "physical_assessment" -> updatePhysicalAssessment(prev, field, value)
      [] section = "head_to_toe" -> updateHeadToToe(prev, field, value)
      [] section = "gastrointestinal" -> updateGI(prev, field, value)
      [] section = "genito_urinary" -> updateGU(prev, field, value)
      [] section = "respiratory" -> updateRespiratory(prev, field, value)
      [] section = "endocrine" -> updateEndocrine(prev, field, value)
      [] section = "changes_since_last" -> updateChanges(prev, field, value)

\* one input per setter (and the three of the Endocrine card), with the values typed
\* or selected; nothing restricts what a text input accepts
VisitInputs ==
    {<<"", "visit_date", {"yesterday"}>>,
     <<"vital_signs", "weight", {Str(<<"7">>), Str(<<"x">>)}>>,
     <<"vital_signs", "blood_pressure_systolic", {D3("1", "5", "0")}>>,
     <<"physical_assessment", "general_appearance", {"well"}>>,
     <<"head_to_toe", "head_neck", {"normal"}>>,
     <<"gastrointestinal", "bowel_sounds", {"present"}>>,
     <<"genito_urinary", "toileting_level", {"independent"}>>,
     <<"respiratory", "lung_sounds", {"clear"}>>,
     <<"endocrine", "is_diabetic", BOOLEAN>>,
     <<"endocrine", "blood_sugar", {"110"}>>,
     <<"changes_since_last", "medication_changes", {"none"}>>,
     <<"", "overall_health_status", {"stable"}>>,
     <<"", "nurse_notes", {"note"}>>}

\* inputs rendered under a condition
VisitInput_shown(vd, abnormal, section, field) ==
    CASE section = "vital_signs" /\ field \in RepeatInputs -> abnormal
      [] section = "endocrine" /\ field \in {"blood_sugar", "diabetic_notes"} ->
            vd.endocrine.is_diabetic
      [] OTHER -> TRUE

\* onChange / onValueChange / onCheckedChange of an input: its setter, then the render
\* and its effect
NewVisit_onChange(section, field, value) ==
    /\ FormShown(NewVisitPath)
    /\ VisitInput_shown(visitData, bpAbnormal, section, field)
    /\ LET after == AfterRender(visitData, SetterOf(visitData, section, field, value))
       IN  /\ visitData' = after.visitData
           /\ bpAbnormal' = after.bpAbnormal
    /\ InputEvent
    /\ edits < MaxEdits
    /\ edits' = edits + 1
    /\ lastHandler' = <<"onChange", section, field, value>>
    /\ UNCHANGED <<authVars, navVars, net, created, toasts, loginVars, patient,
                   pageLoading, saving, iForm, uForm, bpVars, pdfVars, typeVars>>

NextVisitForm ==
    \/ \E i \in 1..MaxInflight, s \in Statuses, lv \in LastVitalsChoices :
          NewVisit_fetchPatient(i, s, lv)
    \/ \E inp \in VisitInputs : \E v \in inp[3] : NewVisit_onChange(inp[1], inp[2], v)
    \/ BackToPatient(NewVisitPath)
    \/ ForcedLoad

SpecVisitForm == InitVisit /\ [][NextVisitForm]_vars

\* every leaf of the form state: <<section, field>>, with "" for a top-level field
LeavesOf(vd) ==
    {<<"", k>> : k \in TopLevel}
        \cup UNION {{<<s, f>> : f \in DOMAIN vd[s]} : s \in Sections}

Leaf(vd, l) == IF l[1] = "" THEN vd[l[2]] ELSE vd[l[1]][l[2]]

SameShape(a, b) ==
    /\ DOMAIN a = DOMAIN b
    /\ \A s \in Sections : DOMAIN a[s] = DOMAIN b[s]

\* C11: the setter an input calls, applied to the current form state with whatever
\* value the input delivers, gives a state of the same shape in which the addressed
\* leaf holds that value and every other leaf is as before; the state the page holds
\* next is that result (followed by the render's blood-pressure effect)
C11_SetterFrame ==
    [][lastHandler'[1] = "onChange" =>
          LET l == <<lastHandler'[2], lastHandler'[3]>>
              value == lastHandler'[4]
              n == SetterOf(visitData, l[1], l[2], value)
          IN  /\ SameShape(n, visitData)
              /\ Leaf(n, l) = value
              /\ \A o \in LeavesOf(visitData) \ {l} : Leaf(n, o) = Leaf(visitData, o)
              /\ visitData' = AfterRender(visitData, n).visitData]_vars

C11_Witness ==
    /\ lastHandler = <<"onChange", "", "nurse_notes", "note">>
    /\ visitData.nurse_notes = "note"
    /\ visitData.vital_signs.weight = Str(<<"x">>)
    /\ visitData.endocrine.is_diabetic
    /\ visitData.physical_assessment = initialVisitData.physical_assessment

(***************************************************************************)
(* InterventionPage and UnableToContactPage                                *)
(***************************************************************************)
JSnull == <<>>       \* null in the place of an object

InterventionTypes == {"injection", "test", "treatment", "procedure"}
DetailKeys == {"injection_details", "test_details", "treatment_details", "procedure_details"}

\* fetchPatient of InterventionPage and of UnableToContactPage settling
Form_fetchPatient(i, status) ==
    /\ i \in DOMAIN net /\ net[i].op = "patients.get"
    /\ LET r == interceptors_response(status, Browser)
           alive == net[i].alive
       IN  /\ lsToken' = r.token /\ lsData' = r.data /\ pendingHref' = r.href
           /\ IF ~r.rejected
              THEN /\ patient' = (IF alive THEN "patient" ELSE patient)
                   /\ toasts' = <<>>
                   /\ path' = path
                   /\ net' = RemoveAt(net, i)
                   /\ lastHandler' = <<"patients.get", "then", status>>
              ELSE /\ toasts' = <<"Failed to load patient">>
                   /\ path' = "/dashboard"
                   /\ net' = Unmount(RemoveAt(net, i))
                   /\ patient' = patient
                   /\ lastHandler' = <<"patients.get", "catch", status>>
           /\ pageLoading' = (IF alive THEN FALSE ELSE pageLoading)
    /\ UNCHANGED <<nurse, authLoading, created, loginVars, saving, editsWhileSaving, edits,
                   formVars, bpVars, pdfVars, typeVars>>

updateField_ClearsDependents(prev, field, value) ==
    IF field = "intervention_type"
    THEN [prev EXCEPT ![field] = value,
                      !.injection_details = initialInterventionData.injection_details,
                      !.test_details = initialInterventionData.test_details,
                      !.treatment_details = initialInterventionData.treatment_details,
                      !.procedure_details = initialInterventionData.procedure_details]
    ELSE IF field = "individual_location"
    THEN [prev EXCEPT ![field] = value, !.expected_return_date = "",
                      !.admission_date = "", !.admission_reason = ""]
    ELSE [prev EXCEPT ![field] = value]

\* setFormData(prev => ({ ...prev, [field]: value }))
updateField(prev, field, value) == [prev EXCEPT ![field] = value]

\* setFormData(prev => ({ ...prev, [section]: { ...prev[section], [field]: value } }))
updateDetail(prev, section, field, value) ==
    [prev EXCEPT ![section] = [prev[section] EXCEPT ![field] = value]]

\* the inputs of InterventionPage the model uses: <<section or "" , field, values>>;
\* a TabsContent is shown for the selected intervention_type only
InterventionInputs ==
    {<<"", "location", {"home"}>>,
     <<"", "intervention_type", InterventionTypes>>,
     <<"", "verified_patient_identity", BOOLEAN>>,
     <<"", "donned_proper_ppe", BOOLEAN>>,
     <<"injection_details", "verified_no_allergic_reaction", BOOLEAN>>,
     <<"injection_details", "cleaned_injection_site", BOOLEAN>>,
     <<"injection_details", "adhered_8_rights", BOOLEAN>>,
     <<"test_details", "test_type", {"tb_skin_test"}>>,
     <<"treatment_details", "treatment_type", {"nebulizer"}>>,
     <<"procedure_details", "procedure_type", {"suture_removal"}>>}

DetailKeyOf(type) ==
    CASE type = "injection" -> "injection_details"
      [] type = "test" -> "test_details"
      [] type = "treatment" -> "treatment_details"
      [] type = "procedure" -> "procedure_details"

\* updateField / updateInjection / updateTest / updateTreatment / updateProcedure
Intervention_update(section, field, value) ==
    /\ FormShown(InterventionPath)
    /\ section # "" => section = DetailKeyOf(iForm.intervention_type)
    /\ iForm' = (IF section = "" THEN updateField(iForm, field, value)
                 ELSE updateDetail(iForm, section, field, value))
    /\ InputEvent
    /\ lastHandler' = <<"InterventionPage.update">>
    /\ UNCHANGED <<authVars, navVars, net, created, toasts, loginVars, patient, edits,
                   pageLoading, saving, visitData, bpAbnormal, uForm, bpVars, pdfVars, typeVars>>

Fails(msg) == [ok |-> FALSE, toasts |-> <<msg>>]
Passes == [ok |-> TRUE, toasts |-> <<>>]

MsgLocation == "Please select the location"
MsgIdentity == "Please verify patient identity"
MsgPPE == "Please confirm proper PPE was donned"
MsgAllergy == "Please verify patient has no allergic reaction to this injection"
MsgSite == "Please confirm injection site was cleaned"
Msg8Rights == "Please confirm adherence to the 8 rights of medication administration"

validateForm_IdentityFirst(formData) ==
    IF ~formData.verified_patient_identity THEN Fails(MsgIdentity)
    ELSE IF formData.location = "" THEN Fails(MsgLocation)
    ELSE IF ~formData.donned_proper_ppe THEN Fails(MsgPPE)
    ELSE IF formData.intervention_type = "injection"
    THEN IF ~formData.injection_details.verified_no_allergic_reaction THEN Fails(MsgAllergy)
         ELSE IF ~formData.injection_details.cleaned_injection_site THEN Fails(MsgSite)
         ELSE IF ~formData.injection_details.adhered_8_rights THEN Fails(Msg8Rights)
         ELSE Passes
    ELSE Passes

validateForm_AllTypes(formData) ==
    IF formData.location = "" THEN Fails(MsgLocation)
    ELSE IF ~formData.verified_patient_identity THEN Fails(MsgIdentity)
    ELSE IF ~formData.donned_proper_ppe THEN Fails(MsgPPE)
    ELSE IF ~formData.injection_details.verified_no_allergic_reaction THEN Fails(MsgAllergy)
    ELSE IF ~formData.injection_details.cleaned_injection_site THEN Fails(MsgSite)
    ELSE IF ~formData.injection_details.adhered_8_rights THEN Fails(Msg8Rights)
    ELSE Passes

validateForm(formData) ==
    IF formData.location = "" THEN Fails(MsgLocation)
    ELSE IF ~formData.verified_patient_identity THEN Fails(MsgIdentity)
    ELSE IF ~formData.donned_proper_ppe THEN Fails(MsgPPE)
    ELSE IF formData.intervention_type = "injection"
    THEN IF ~formData.injection_details.verified_no_allergic_reaction THEN Fails(MsgAllergy)
         ELSE IF ~formData.injection_details.cleaned_injection_site THEN Fails(MsgSite)
         ELSE IF ~formData.injection_details.adhered_8_rights THEN Fails(Msg8Rights)
         ELSE Passes
    ELSE Passes

submitData_AsTyped(formData) == formData

\* the object handleSubmit builds for interventionsAPI.create
submitData(formData) ==
    [formData EXCEPT
        !.injection_details =
            IF formData.intervention_type = "injection" THEN formData.injection_details
            ELSE JSnull,
        !.test_details =
            IF formData.intervention_type = "test" THEN formData.test_details ELSE JSnull,
        !.treatment_details =
            IF formData.intervention_type = "treatment" THEN formData.treatment_details
            ELSE JSnull,
        !.procedure_details =
            IF formData.intervention_type = "procedure" THEN formData.procedure_details
            ELSE JSnull]

\* interventionsAPI.create(data) of the REST client: a POST to the interventions
\* resource.  InterventionPage imports it from lib/api; the export itself is not among
\* the sources, so it follows the specification's list of resources and the shape of
\* unableToContactAPI.create.
interventionsAPI_create(data) == Request("interventions.create", data)

Intervention_handleSubmit_VisitsResource ==
    /\ FormShown(InterventionPath)
    /\ ~saving
    /\ Len(net) < MaxInflight
    /\ LET v == validateForm(iForm)
       IN  /\ toasts' = v.toasts
           /\ saving' = v.ok
           /\ net' = (IF v.ok THEN Append(net, Request("visits.create", submitData(iForm)))
                      ELSE net)
    /\ editsWhileSaving' = 0
    /\ lastHandler' = <<"InterventionPage.handleSubmit">>
    /\ UNCHANGED <<authVars, navVars, created, loginVars, patient, edits, pageLoading,
                   formVars, bpVars, pdfVars, typeVars>>

Intervention_handleSubmit_SavingFirst ==
    /\ FormShown(InterventionPath)
    /\ ~saving
    /\ Len(net) < MaxInflight
    /\ LET v == validateForm(iForm)
       IN  /\ toasts' = v.toasts
           /\ saving' = TRUE
           /\ net' = (IF v.ok THEN Append(net, interventionsAPI_create(submitData(iForm)))
                      ELSE net)
    /\ editsWhileSaving' = 0
    /\ lastHandler' = <<"InterventionPage.handleSubmit">>
    /\ UNCHANGED <<authVars, navVars, created, loginVars, patient, edits, pageLoading,
                   formVars, bpVars, pdfVars, typeVars>>

\* handleSubmit of InterventionPage up to the await
Intervention_handleSubmit ==
    /\ FormShown(InterventionPath)
    /\ ~saving                             \* both save buttons are disabled={saving}
    /\ Len(net) < MaxInflight
    /\ LET v == validateForm(iForm)
       IN  /\ toasts' = v.toasts
           /\ saving' = v.ok
           /\ net' = (IF v.ok THEN Append(net, interventionsAPI_create(submitData(iForm)))
                      ELSE net)
    /\ editsWhileSaving' = 0
    /\ lastHandler' = <<"InterventionPage.handleSubmit">>
    /\ UNCHANGED <<authVars, navVars, created, loginVars, patient, edits, pageLoading,
                   formVars, bpVars, pdfVars, typeVars>>

Intervention_createSettle(i, status) ==
    CreateSettle(i, "interventions.create", status, "Intervention saved successfully",
                 "Failed to save intervention")

\* the inputs of UnableToContactPage the model uses, with the condition under which
\* each is shown
UnableToContactInputs ==
    {<<"attempt_location", {"home", "other"}>>,
     <<"attempt_location_other", {"", "text"}>>,
     <<"individual_location", {"admitted", "vacation", "deceased"}>>,
     <<"expected_return_date", {"", "date"}>>,
     <<"admission_date", {"", "date"}>>,
     <<"admission_reason", {"", "text"}>>}

UnableToContact_shown(formData, field) ==
    CASE field = "attempt_location_other" -> formData.attempt_location = "other"
      [] field = "expected_return_date" ->
            formData.individual_location \in {"moved_temporarily", "vacation", "admitted"}
      [] field \in {"admission_date", "admission_reason"} ->
            formData.individual_location = "admitted"
      [] OTHER -> TRUE

UnableToContact_updateField(field, value) ==
    /\ FormShown(UnableToContactPath)
    /\ UnableToContact_shown(uForm, field)
    /\ uForm' = updateField(uForm, field, value)
    /\ InputEvent
    /\ lastHandler' = <<"UnableToContactPage.updateField">>
    /\ UNCHANGED <<authVars, navVars, net, created, toasts, loginVars, patient, edits,
                   pageLoading, saving, visitData, bpAbnormal, iForm, bpVars, pdfVars, typeVars>>

MsgAttempt == "Please select where you attempted to contact"
MsgIndividual == "Please select where the individual is"

UnableToContact_validate_RequiresOther(formData) ==
    IF formData.attempt_location = "" THEN Fails(MsgAttempt)
    ELSE IF formData.attempt_location = "other" /\ formData.attempt_location_other = ""
    THEN Fails(MsgAttempt)
    ELSE IF formData.individual_location = "" THEN Fails(MsgIndividual)
    ELSE Passes

\* the two checks at the head of UnableToContactPage.handleSubmit
UnableToContact_validate(formData) ==
    IF formData.attempt_location = "" THEN Fails(MsgAttempt)
    ELSE IF formData.individual_location = "" THEN Fails(MsgIndividual)
    ELSE Passes

\* handleSubmit of UnableToContactPage up to the await
UnableToContact_handleSubmit ==
    /\ FormShown(UnableToContactPath)
    /\ ~saving                             \* both save buttons are disabled={saving}
    /\ Len(net) < MaxInflight
    /\ LET v == UnableToContact_validate(uForm)
       IN  /\ toasts' = v.toasts
           /\ saving' = v.ok
           /\ net' = (IF v.ok THEN Append(net, Request("unable-to-contact.create", uForm))
                      ELSE net)
    /\ editsWhileSaving' = 0
    /\ lastHandler' = <<"UnableToContactPage.handleSubmit">>
    /\ UNCHANGED <<authVars, navVars, created, loginVars, patient, edits, pageLoading,
                   formVars, bpVars, pdfVars, typeVars>>

UnableToContact_createSettle(i, status) ==
    CreateSettle(i, "unable-to-contact.create", status, "Unable to contact record saved",
                 "Failed to save record")

InitForms ==
    /\ LoggedIn /\ FormsFresh /\ BPIdle
    /\ path \in {InterventionPath, UnableToContactPath}
    /\ pageLoading = TRUE
    /\ net = <<Request("patients.get", NoPayload)>>
    /\ lastHandler = <<"mount">>

NextForms ==
    \/ \E i \in 1..MaxInflight, s \in Statuses : Form_fetchPatient(i, s)
    \/ \E inp \in InterventionInputs : \E v \in inp[3] : Intervention_update(inp[1], inp[2], v)
    \/ Intervention_handleSubmit
    \/ \E i \in 1..MaxInflight, s \in Statuses : Intervention_createSettle(i, s)
    \/ \E inp \in UnableToContactInputs : \E v \in inp[2] :
          UnableToContact_updateField(inp[1], v)
    \/ UnableToContact_handleSubmit
    \/ \E i \in 1..MaxInflight, s \in Statuses : UnableToContact_createSettle(i, s)
    \/ BackToPatient(InterventionPath)
    \/ BackToPatient(UnableToContactPath)
    \/ ForcedLoad

SpecForms == InitForms /\ [][NextForms]_vars

\* the three form pages together
InitCreate == InitVisit \/ InitForms
NextCreate == NextVisit \/ NextForms
SpecCreate == InitCreate /\ [][NextCreate]_vars

\* the create operation of each form page, the route of the page and its messages
CreateForms ==
    {<<"visits.create", NewVisitPath, "Visit saved successfully", "Failed to save visit">>,
     <<"interventions.create", InterventionPath, "Intervention saved successfully",
       "Failed to save intervention">>,
     <<"unable-to-contact.create", UnableToContactPath, "Unable to contact record saved",
       "Failed to save record">>}

\* a step in which the create request of the shown form fails with one of the statuses
\* sends nothing again, shows the one error message, keeps route and form state, and
\* clears saving
FailedCreateStays(statuses) ==
    \A f \in CreateForms : \A st \in statuses :
        (lastHandler' = <<f[1], "catch", st>> /\ FormShown(f[2]) /\ saving) =>
            /\ Len(net') = Len(net) - 1 /\ Pending(net', f[1]) = {}
            /\ created' = created
            /\ toasts' = <<f[4]>>
            /\ path' = path /\ pendingHref' = pendingHref
            /\ formVars' = formVars
            /\ ~saving'

\* a step in which it succeeds clears saving, shows the success message and
\* navigates to the patient page
SucceededCreateLeaves ==
    \A f \in CreateForms :
        (lastHandler' = <<f[1], "then", 200>> /\ FormShown(f[2]) /\ saving) =>
            /\ ~saving'
            /\ Len(created') = Len(created) + 1
            /\ toasts' = <<f[3]>>
            /\ path' = PatientPath

\* C19 as claimed: whatever the failure of the create request, no navigation happens
\* and the form is kept
C19_AnyFailureStaysOnForm ==
    [][FailedCreateStays(Statuses \ {200}) /\ SucceededCreateLeaves]_vars

\* C19 amended: that holds for every failure but a 401; on a 401 the request is not
\* retried either, the message is shown and saving cleared, but the credentials are
\* removed and the load of /login is forced
C19_FailedCreate ==
    [][/\ FailedCreateStays(Statuses \ {200, 401})
       /\ SucceededCreateLeaves
       /\ \A f \in CreateForms :
             (lastHandler' = <<f[1], "catch", 401>> /\ FormShown(f[2]) /\ saving) =>
                 /\ Pending(net', f[1]) = {} /\ created' = created
                 /\ toasts' = <<f[4]>> /\ ~saving'
                 /\ lsToken' = Null /\ lsData' = NoItem /\ pendingHref' = "/login"]_vars

C19_Witness ==
    /\ lastHandler = <<"interventions.create", "catch", 500>>
    /\ path = InterventionPath /\ pendingHref = Null
    /\ iForm.location = "home" /\ iForm.verified_patient_identity
    /\ iForm.intervention_type = "test"
    /\ toasts = <<"Failed to save intervention">>
    /\ ~saving /\ net = <<>> /\ created = <<>>

\* C30: the form state keeps the data of fields that are not shown.  Changing
\* intervention_type leaves the four detail sub-records as they were, and handleSubmit
\* of InterventionPage leaves the form state as it was (the nulled sub-records are in
\* the request only); changing individual_location leaves expected_return_date,
\* admission_date and admission_reason as they were, and handleSubmit of
\* UnableToContactPage sends the form state whole, so the values entered for a former
\* selection are in the request
DependentFields == {"expected_return_date", "admission_date", "admission_reason"}

C30_HiddenFieldsKept ==
    [][/\ (/\ lastHandler' = <<"InterventionPage.update">>
           /\ iForm'.intervention_type # iForm.intervention_type)
          => \A k \in DetailKeys : iForm'[k] = iForm[k]
       /\ lastHandler' = <<"InterventionPage.handleSubmit">>
          => /\ iForm' = iForm
             /\ saving' => /\ net'[Len(net')].payload = submitData(iForm)
                           /\ \A k \in DetailKeys \ {DetailKeyOf(iForm.intervention_type)} :
                                 net'[Len(net')].payload[k] = JSnull
       /\ (/\ lastHandler' = <<"UnableToContactPage.updateField">>
           /\ uForm'.individual_location # uForm.individual_location)
          => \A k \in DependentFields : uForm'[k] = uForm[k]
       /\ lastHandler' = <<"UnableToContactPage.handleSubmit">>
          => /\ uForm' = uForm
             /\ saving' => \A k \in DependentFields : net'[Len(net')].payload[k] = uForm[k]
      ]_vars

\* a record sent for an individual reported deceased that carries the dates and the
\* reason entered while the selection was "admitted"
C30_Witness ==
    /\ lastHandler = <<"UnableToContactPage.handleSubmit">>
    /\ saving
    /\ net[Len(net)].op = "unable-to-contact.create"
    /\ net[Len(net)].payload.individual_location = "deceased"
    /\ \A k \in DependentFields : net[Len(net)].payload[k] # ""

\* an intervention form that holds the acknowledgments of an injection while a test is
\* selected and submitted
C30_InterventionKept ==
    /\ lastHandler = <<"InterventionPage.handleSubmit">>
    /\ saving
    /\ iForm.intervention_type = "test"
    /\ iForm.injection_details.cleaned_injection_site
    /\ net[Len(net)].payload.injection_details = JSnull

SubmittedIntervention == lastHandler = <<"InterventionPage.handleSubmit">>
SubmittedUnableToContact == lastHandler = <<"UnableToContactPage.handleSubmit">>

\* the rules of the intervention validator in their fixed order
InterventionRules(f) ==
    <<[applies |-> TRUE, holds |-> f.location # "", msg |-> MsgLocation],
      [applies |-> TRUE, holds |-> f.verified_patient_identity, msg |-> MsgIdentity],
      [applies |-> TRUE, holds |-> f.donned_proper_ppe, msg |-> MsgPPE],
      [applies |-> f.intervention_type = "injection",
       holds |-> f.injection_details.verified_no_allergic_reaction, msg |-> MsgAllergy],
      [applies |-> f.intervention_type = "injection",
       holds |-> f.injection_details.cleaned_injection_site, msg |-> MsgSite],
      [applies |-> f.intervention_type = "injection",
       holds |-> f.injection_details.adhered_8_rights, msg |-> Msg8Rights]>>

FailingRules(f) ==
    {i \in DOMAIN InterventionRules(f) :
        InterventionRules(f)[i].applies /\ ~InterventionRules(f)[i].holds}

FirstFailingRule(f) == CHOOSE i \in FailingRules(f) : \A j \in FailingRules(f) : i <= j

\* C3: a submission of the intervention form shows exactly one message, that of the
\* first failing rule in the fixed order, however many rules fail (none when all pass)
C3_FirstFailingRule ==
    SubmittedIntervention =>
        IF FailingRules(iForm) = {} THEN toasts = <<>>
        ELSE toasts = <<InterventionRules(iForm)[FirstFailingRule(iForm)].msg>>

C3_Witness ==
    /\ SubmittedIntervention
    /\ iForm.intervention_type = "injection"
    /\ iForm.location = "" /\ ~iForm.verified_patient_identity
    /\ Cardinality(FailingRules(iForm)) >= 2
    /\ toasts = <<MsgLocation>>

PendingInterventions == {i \in DOMAIN net : net[i].op = "interventions.create"}

\* C4: every payload handleSubmit sends carries the four detail keys, and exactly the
\* one of intervention_type is not null
C4_OneDetailRecord ==
    \A i \in PendingInterventions :
        LET p == net[i].payload
        IN  /\ DetailKeys \subseteq DOMAIN p
            /\ {k \in DetailKeys : p[k] # JSnull} = {DetailKeyOf(p.intervention_type)}
            /\ p[DetailKeyOf(p.intervention_type)] # JSnull

C4_Witness ==
    /\ SubmittedIntervention
    /\ iForm.intervention_type = "test"
    /\ iForm.injection_details.verified_no_allergic_reaction
    /\ iForm.procedure_details.procedure_type = "suture_removal"
    /\ \E i \in PendingInterventions :
          /\ net[i].payload.injection_details = JSnull
          /\ net[i].payload.procedure_details = JSnull
          /\ net[i].payload.test_details = iForm.test_details

InterventionDraftValid(f) ==
    /\ f.location # "" /\ f.verified_patient_identity /\ f.donned_proper_ppe
    /\ f.intervention_type = "injection" =>
          /\ f.injection_details.verified_no_allergic_reaction
          /\ f.injection_details.cleaned_injection_site
          /\ f.injection_details.adhered_8_rights

UnableToContactDraftValid(f) == f.attempt_location # "" /\ f.individual_location # ""

\* C5: a submission of an invalid Intervention or UnableToContact draft sends no
\* request, leaves saving, the form state and the route as they were, and shows one
\* message
C5_InvalidDraftStaysLocal ==
    [][(\/ lastHandler' = <<"InterventionPage.handleSubmit">>
           /\ ~InterventionDraftValid(iForm)
        \/ lastHandler' = <<"UnableToContactPage.handleSubmit">>
           /\ ~UnableToContactDraftValid(uForm))
        => /\ net' = net /\ created' = created
           /\ saving' = saving /\ ~saving'
           /\ iForm' = iForm /\ uForm' = uForm
           /\ path' = path /\ pendingHref' = pendingHref
           /\ Len(toasts') = 1]_vars

C5_Witness ==
    /\ SubmittedIntervention
    /\ iForm.location = "home" /\ ~iForm.donned_proper_ppe
    /\ iForm.verified_patient_identity
    /\ toasts = <<MsgPPE>>
    /\ ~saving /\ net = <<>> /\ created = <<>> /\ path = InterventionPath

\* C6: for test, treatment and procedure a submission is accepted (saving set, the
\* create request sent, no message) exactly when location is set and both universal
\* acknowledgments are true
C6_NonInjectionRules ==
    (SubmittedIntervention /\ iForm.intervention_type \in {"test", "treatment", "procedure"})
    => ((saving /\ toasts = <<>> /\ PendingInterventions # {})
          <=> (iForm.location # "" /\ iForm.verified_patient_identity
               /\ iForm.donned_proper_ppe))

C6_Witness ==
    /\ SubmittedIntervention
    /\ iForm.intervention_type = "treatment"
    /\ ~iForm.injection_details.verified_no_allergic_reaction
    /\ ~iForm.injection_details.cleaned_injection_site
    /\ ~iForm.injection_details.adhered_8_rights
    /\ iForm.treatment_details.treatment_type = ""
    /\ saving /\ PendingInterventions # {}

PendingUnableToContact == {i \in DOMAIN net : net[i].op = "unable-to-contact.create"}

\* C7: a submission of the unable-to-contact form is sent exactly when attempt_location
\* and individual_location are both set; a missing attempt_location is reported first;
\* no other field decides
C7_UnableToContactRules ==
    SubmittedUnableToContact =>
        /\ (saving /\ \E i \in PendingUnableToContact : net[i].payload = uForm)
              <=> (uForm.attempt_location # "" /\ uForm.individual_location # "")
        /\ uForm.attempt_location = "" => toasts = <<MsgAttempt>>
        /\ (uForm.attempt_location # "" /\ uForm.individual_location = "")
              => toasts = <<MsgIndividual>>
        /\ (uForm.attempt_location # "" /\ uForm.individual_location # "") => toasts = <<>>

C7_Witness ==
    /\ SubmittedUnableToContact
    /\ uForm.attempt_location = "other" /\ uForm.attempt_location_other = ""
    /\ uForm.individual_location = "admitted"
    /\ uForm.admission_date = "" /\ uForm.admission_reason = ""
    /\ uForm.expected_return_date = ""
    /\ saving /\ PendingUnableToContact # {}

(***************************************************************************)
(* VisitDetailPage: generatePDF.  Text is a sequence of chunks (a white-   *)
(* space character, or a run of other characters); a field of the visit or *)
(* the patient is a string, a number, a boolean, null or undefined.        *)
(***************************************************************************)
Undefined == [k |-> "undefined", n |-> 0, s |-> <<>>]
NullValue == [k |-> "null", n |-> 0, s |-> <<>>]
Bool(b) == [k |-> "bool", n |-> IF b THEN 1 ELSE 0, s |-> <<>>]

\* ToBoolean
Truthy(v) ==
    CASE v.k = "str" -> v.s # <<>>
      [] v.k = "num" -> v.n # 0
      [] v.k = "bool" -> v.n = 1
      [] OTHER -> FALSE

\* the string a template literal puts in the place of ${v}
TemplateString(v) ==
    CASE v.k = "undefined" -> <<"undefined">>
      [] v.k = "null" -> <<"null">>
      [] v.k = "bool" -> (IF v.n = 1 THEN <<"true">> ELSE <<"false">>)
      [] OTHER -> JSToString(v)

NA == <<"N/A">>

\* Date.toLocaleDateString('en-US', {year, month: 'short', day}) of the dates used
toLocaleDateString(dateString) ==
    CASE dateString = <<"2025", "-", "01", "-", "05">> -> <<"Jan", " ", "5", ",", " ", "2025">>
      [] dateString = <<"2025", "-", "02", "-", "10">> -> <<"Feb", " ", "10", ",", " ", "2025">>
      [] OTHER -> <<"Invalid", " ", "Date">>

formatDate(dateString) ==
    IF ~Truthy(dateString) THEN NA ELSE toLocaleDateString(TemplateString(dateString))

formatDateTime(dateString) ==
    IF ~Truthy(dateString) THEN NA
    ELSE LET d == toLocaleDateString(TemplateString(dateString))
         IN  IF d = <<"Invalid", " ", "Date">> THEN d
             ELSE d \o <<",", " ", "12:00", " ", "AM">>

\* chunks that fit the width of a field value and of the notes block
FieldWidth == 8
NotesWidth == 10

\* jsPDF splitTextToSize: the text cut into lines of at most size chunks
RECURSIVE splitTextToSize(_, _)
splitTextToSize(text, size) ==
    IF Len(text) <= size THEN <<text>>
    ELSE <<SubSeq(text, 1, size)>> \o splitTextToSize(SubSeq(text, size + 1, Len(text)), size)

\* the document: its pages (the last one is current), each the doc.text calls made on
\* it, and the cursor y
NewDoc == [pages |-> << <<>> >>, y |-> 20]
Item(kind, label, lines, y) == [kind |-> kind, label |-> label, lines |-> lines, y |-> y]
Put(doc, item) == [doc EXCEPT !.pages[Len(doc.pages)] = Append(@, item)]
addPage(doc) == [doc EXCEPT !.pages = Append(@, <<>>), !.y = 20]
Advance(doc, dy) == [doc EXCEPT !.y = @ + dy]

addTitle(doc, text) == Advance(Put(doc, Item("title", text, <<>>, doc.y)), 7 + 2)

addSectionTitle_FieldThreshold(doc, text) ==
    LET d == IF doc.y > 270 THEN addPage(doc) ELSE doc
    IN  Advance(Put(d, Item("section", text, <<>>, d.y)), 7)

addSectionTitle(doc, text) ==
    LET d == IF doc.y > 260 THEN addPage(doc) ELSE doc
    IN  Advance(Put(d, Item("section", text, <<>>, d.y)), 7)

addField_SectionThreshold(doc, label, value) ==
    LET d == IF doc.y > 260 THEN addPage(doc) ELSE doc
        valueText == IF Truthy(value) THEN TemplateString(value) ELSE NA
        splitText == splitTextToSize(valueText, FieldWidth)
    IN  Advance(Put(d, Item("field", label, splitText, d.y)),
                7 * (IF Len(splitText) > 1 THEN Len(splitText) ELSE 1))

addField_OneLinePerField(doc, label, value) ==
    LET d == IF doc.y > 270 THEN addPage(doc) ELSE doc
        valueText == IF Truthy(value) THEN TemplateString(value) ELSE NA
        splitText == splitTextToSize(valueText, FieldWidth)
    IN  Advance(Put(d, Item("field", label, splitText, d.y)), 7)

addField(doc, label, value) ==
    LET d == IF doc.y > 270 THEN addPage(doc) ELSE doc
        valueText == IF Truthy(value) THEN TemplateString(value) ELSE NA
        splitText == splitTextToSize(valueText, FieldWidth)
    IN  Advance(Put(d, Item("field", label, splitText, d.y)),
                7 * (IF Len(splitText) > 1 THEN Len(splitText) ELSE 1))

\* statements run one after the other: e is evaluated, then F applied to its value
Then(e, F(_)) == CHOOSE r \in {F(d) : d \in {e}} : TRUE

\* successive addField calls
RECURSIVE addFields(_, _)
addFields(doc, fields) ==
    IF fields = <<>> THEN doc
    ELSE Then(addField(doc, Head(fields)[1], Head(fields)[2]),
              LAMBDA d : addFields(d, Tail(fields)))

\* value ? `${value}<unit>` : null
WithUnit(value, unit) == IF Truthy(value) THEN Str(TemplateString(value) \o unit) ELSE NullValue

\* `${a}/${b} mmHg`
Pressure(a, b) == Str(TemplateString(a) \o <<"/">> \o TemplateString(b) \o <<" ", "mmHg">>)

Header(doc) ==
    Advance(Put(Put(doc, Item("header", "MedRounds", <<>>, doc.y)),
                Item("subtitle", "Home Nurse Visit Report", <<>>, doc.y + 6)), 20)

PatientInformation(doc, p) ==
    Advance(addFields(addTitle(doc, "Patient Information"),
        <<<<"Name", p.full_name>>,
          <<"Date of Birth", Str(formatDate(p.permanent_info.date_of_birth))>>,
          <<"Gender", p.permanent_info.gender>>,
          <<"Address", p.permanent_info.home_address>>>>), 5)

VisitInformation(doc, v) ==
    Advance(addFields(addSectionTitle(doc, "Visit Information"),
        <<<<"Visit Date", Str(formatDateTime(v.visit_date))>>,
          <<"Health Status", v.overall_health_status>>>>), 5)

VitalSigns(doc, v) ==
    LET vs == v.vital_signs
    IN  Advance(addFields(addSectionTitle(doc, "Vital Signs"),
            <<<<"Weight", WithUnit(vs.weight, <<" ", "lbs">>)>>,
              <<"Temperature", WithUnit(vs.body_temperature, <<"F">>)>>,
              <<"Blood Pressure",
                IF Truthy(vs.blood_pressure_systolic)
                THEN Pressure(vs.blood_pressure_systolic, vs.blood_pressure_diastolic)
                ELSE NullValue>>>>
            \o (IF Truthy(vs.repeat_blood_pressure_systolic)
                THEN <<<<"Repeat BP", Pressure(vs.repeat_blood_pressure_systolic,
                                               vs.repeat_blood_pressure_diastolic)>>>>
                ELSE <<>>)
            \o <<<<"SpO2", WithUnit(vs.pulse_oximeter, <<"%">>)>>,
                 <<"Pulse", WithUnit(vs.pulse, <<" ", "bpm">>)>>,
                 <<"Respirations", WithUnit(vs.respirations, <<"/min">>)>>>>), 5)

PhysicalAssessment(doc, v) ==
    Advance(addFields(addSectionTitle(doc, "Physical Assessment"),
        <<<<"General Appearance", v.physical_assessment.general_appearance>>,
          <<"Skin Assessment", v.physical_assessment.skin_assessment>>,
          <<"Mobility Level", v.physical_assessment.mobility_level>>,
          <<"Speech Level", v.physical_assessment.speech_level>>,
          <<"Alert & Oriented", v.physical_assessment.alert_oriented_level>>>>), 5)

HeadToToe(doc, v) ==
    Advance(addFields(addSectionTitle(doc, "Head to Toe Assessment"),
        <<<<"Head & Neck", v.head_to_toe.head_neck>>,
          <<"Eyes/Vision", v.head_to_toe.eyes_vision>>,
          <<"Ears/Hearing", v.head_to_toe.ears_hearing>>,
          <<"Nose/Nasal", v.head_to_toe.nose_nasal_cavity>>,
          <<"Mouth/Oral", v.head_to_toe.mouth_teeth_oral_cavity>>>>), 5)

Gastrointestinal(doc, v) ==
    Advance(addFields(addSectionTitle(doc, "Gastrointestinal Assessment"),
        <<<<"Last Bowel Movement", Str(formatDate(v.gastrointestinal.last_bowel_movement))>>,
          <<"Bowel Sounds", v.gastrointestinal.bowel_sounds>>,
          <<"Diet Type", v.gastrointestinal.nutritional_diet>>>>), 5)

GenitoUrinary(doc, v) ==
    Advance(addFields(addSectionTitle(doc, "Genito-Urinary Assessment"),
        <<<<"Toileting Level", v.genito_urinary.toileting_level>>>>), 5)

Respiratory(doc, v) ==
    Advance(addFields(addSectionTitle(doc, "Respiratory Assessment"),
        <<<<"Lung Sounds", v.respiratory.lung_sounds>>,
          <<"Oxygen Type", v.respiratory.oxygen_type>>>>), 5)

EndocrineSection(doc, v) ==
    Advance(addFields(addSectionTitle(doc, "Endocrine Assessment"),
        <<<<"Diabetic", Str(<<"Yes">>)>>,
          <<"Blood Sugar", WithUnit(v.endocrine.blood_sugar, <<" ", "mg/dL">>)>>,
          <<"Notes", v.endocrine.diabetic_notes>>>>), 5)

Endocrine_Always(doc, v) == EndocrineSection(doc, v)

Endocrine(doc, v) == IF Truthy(v.endocrine.is_diabetic) THEN EndocrineSection(doc, v) ELSE doc

Changes(doc, v) ==
    Advance(addFields(addSectionTitle(doc, "Changes Since Last Visit"),
        <<<<"Medication Changes", v.changes_since_last.medication_changes>>,
          <<"Diagnosis Changes", v.changes_since_last.diagnosis_changes>>,
          <<"ER/Urgent Care", v.changes_since_last.er_urgent_care_visits>>,
          <<"Upcoming Appointments", v.changes_since_last.upcoming_appointments>>>>), 5)

NurseNotes(doc, v) ==
    IF Truthy(v.nurse_notes)
    THEN LET d == addSectionTitle(doc, "Nurse Notes")
         IN  Put(d, Item("text", "", splitTextToSize(v.nurse_notes.s, NotesWidth), d.y))
    ELSE doc

\* Date.toLocaleString of the time new Date() gives
toLocaleString(now) == <<"t">> \o NatToString(now)

PageOf(i, pages) == <<"Page", " ">> \o NatToString(i) \o <<" ", "of", " ">> \o NatToString(pages)

Footer_LastPageOnly(doc, now) ==
    LET pages == Len(doc.pages)
    IN  [doc EXCEPT !.pages[pages] =
            @ \o <<Item("footer", "page", <<PageOf(pages, pages)>>, 287),
                   Item("footer", "generated",
                        <<<<"Generated:", " ">> \o toLocaleString(now)>>, 287)>>]

\* the loop over doc.internal.getNumberOfPages()
Footer(doc, now) ==
    LET pages == Len(doc.pages)
    IN  [doc EXCEPT !.pages =
            [i \in 1..pages |->
                doc.pages[i] \o
                    <<Item("footer", "page", <<PageOf(i, pages)>>, 287),
                      Item("footer", "generated",
                           <<<<"Generated:", " ">> \o toLocaleString(now)>>, 287)>>]]

replace_EachWhitespace(s) == [i \in DOMAIN s |-> IF IsWhiteSpace(s[i]) THEN "_" ELSE s[i]]

\* String.replace(/\s+/g, '_')
RECURSIVE replace(_)
replace(s) ==
    IF s = <<>> THEN <<>>
    ELSE IF IsWhiteSpace(Head(s)) THEN <<"_">> \o replace(TrimStart(s))
    ELSE <<Head(s)>> \o replace(Tail(s))

\* `visit_${patient?.full_name?.replace(/\s+/g, '_')}_${formatDate(visit?.visit_date)}.pdf`
FileName(p, v) ==
    <<"visit_">>
        \o (IF p.full_name.k = "str" THEN replace(p.full_name.s) ELSE <<"undefined">>)
        \o <<"_">> \o formatDate(v.visit_date) \o <<".pdf">>

EmitOrder_NotesBeforeChanges ==
    <<"Header", "PatientInformation", "VisitInformation", "VitalSigns",
      "PhysicalAssessment", "HeadToToe", "Gastrointestinal", "GenitoUrinary",
      "Respiratory", "Endocrine", "NurseNotes", "Changes">>

\* the blocks of generatePDF in the order of its statements
EmitOrder ==
    <<"Header", "PatientInformation", "VisitInformation", "VitalSigns",
      "PhysicalAssessment", "HeadToToe", "Gastrointestinal", "GenitoUrinary",
      "Respiratory", "Endocrine", "Changes", "NurseNotes">>

Emit(block, doc, p, v) ==
    CASE block = "Header" -> Header(doc)
      [] block = "PatientInformation" -> PatientInformation(doc, p)
      [] block = "VisitInformation" -> VisitInformation(doc, v)
      [] block = "VitalSigns" -> VitalSigns(doc, v)
      [] block = "PhysicalAssessment" -> PhysicalAssessment(doc, v)
      [] block = "HeadToToe" -> HeadToToe(doc, v)
      [] block = "Gastrointestinal" -> Gastrointestinal(doc, v)
      [] block = "GenitoUrinary" -> GenitoUrinary(doc, v)
      [] block = "Respiratory" -> Respiratory(doc, v)
      [] block = "Endocrine" -> Endocrine(doc, v)
      [] block = "Changes" -> Changes(doc, v)
      [] block = "NurseNotes" -> NurseNotes(doc, v)

RECURSIVE Layout(_, _, _)
Layout(order, p, v) ==
    IF order = <<>> THEN NewDoc
    ELSE Then(Layout(SubSeq(order, 1, Len(order) - 1), p, v),
              LAMBDA d : Emit(order[Len(order)], d, p, v))

Body(p, v) == Layout(EmitOrder, p, v)

generatePDF(p, v, now) ==
    [pages |-> Footer(Body(p, v), now).pages, name |-> FileName(p, v)]

(***************************************************************************)
(* SpecReport: the visit page loads a visit and its patient, and the nurse *)
(* downloads the report                                                    *)
(***************************************************************************)
Short == Str(<<"ok">>)
LongText == [i \in 1..(2 * FieldWidth + 1) |-> "w"]
VisitDate == Str(<<"2025", "-", "01", "-", "05">>)
BirthDate == Str(<<"2025", "-", "02", "-", "10">>)

\* a visit as visitsAPI.get returns it: fill is the value of the fields nothing else
\* sets (undefined stands for a sparsely recorded visit, which also has a null and an
\* empty string)
ReportVisit(fill, diabetic, notes, repeatSys, dia, appearance) ==
    [visit_date |-> IF Truthy(fill) THEN VisitDate ELSE fill,
     vital_signs |->
        [weight |-> fill, body_temperature |-> fill,
         blood_pressure_systolic |-> D3("1", "2", "0"), blood_pressure_diastolic |-> dia,
         pulse_oximeter |-> fill, pulse |-> Num(72), respirations |-> fill,
         repeat_blood_pressure_systolic |-> repeatSys,
         repeat_blood_pressure_diastolic |-> repeatSys,
         bp_abnormal |-> Bool(FALSE)],
     physical_assessment |->
        [general_appearance |-> appearance,
         skin_assessment |-> IF Truthy(fill) THEN fill ELSE Str(<<>>),
         mobility_level |-> IF Truthy(fill) THEN fill ELSE NullValue,
         speech_level |-> fill, alert_oriented_level |-> fill],
     head_to_toe |->
        [head_neck |-> fill, eyes_vision |-> fill, ears_hearing |-> fill,
         nose_nasal_cavity |-> fill, mouth_teeth_oral_cavity |-> fill],
     gastrointestinal |->
        [last_bowel_movement |-> IF Truthy(fill) THEN VisitDate ELSE fill,
         bowel_sounds |-> fill, nutritional_diet |-> fill],
     genito_urinary |-> [toileting_level |-> fill],
     respiratory |-> [lung_sounds |-> fill, oxygen_type |-> fill],
     endocrine |-> [is_diabetic |-> diabetic, diabetic_notes |-> fill, blood_sugar |-> fill],
     changes_since_last |->
        [medication_changes |-> fill, diagnosis_changes |-> fill,
         er_urgent_care_visits |-> fill, upcoming_appointments |-> fill],
     overall_health_status |-> fill,
     nurse_notes |-> notes]

ReportVisits ==
    {ReportVisit(fill, diabetic, notes, repeatSys, dia, appearance) :
        fill \in {Undefined, Short},
        diabetic \in {Bool(TRUE), Bool(FALSE), Undefined},
        notes \in {Str(<<>>), Short, Str(LongText)},
        repeatSys \in {Undefined, D3("1", "3", "0")},
        dia \in {Undefined, D2("8", "0")},
        appearance \in {Undefined, Str(LongText)}}

ReportPatients ==
    {[full_name |-> name,
      permanent_info |->
         [date_of_birth |-> BirthDate, gender |-> Short, home_address |-> Undefined]] :
        name \in {Str(<<"Ann", " ", "Lee">>), Str(<<"Ann", " ", "\t", "Lee">>), Undefined}}

\* fetchVisitData settling: visitsAPI.get, then patientsAPI.get, each through the
\* interceptor; try / catch / finally
VisitDetail_fetchVisitData(i, status1, status2) ==
    /\ i \in DOMAIN net /\ net[i].op = "visits.get"
    /\ \E v \in ReportVisits, p \in ReportPatients :
          LET r1 == interceptors_response(status1, Browser)
              r2 == IF r1.rejected THEN r1
                    ELSE interceptors_response(status2,
                            [token |-> r1.token, data |-> r1.data, href |-> r1.href])
              alive == net[i].alive
          IN  /\ lsToken' = r2.token /\ lsData' = r2.data /\ pendingHref' = r2.href
              /\ visit' = (IF alive /\ ~r1.rejected THEN v ELSE visit)
              /\ detailPatient' = (IF alive /\ ~r2.rejected THEN p ELSE detailPatient)
              /\ IF ~r2.rejected
                 THEN /\ toasts' = <<>>
                      /\ path' = path
                      /\ net' = RemoveAt(net, i)
                      /\ lastHandler' = <<"visits.get", "then", status2>>
                 ELSE /\ toasts' = <<"Failed to load visit data">>
                      /\ path' = "/dashboard"
                      /\ net' = Unmount(RemoveAt(net, i))
                      /\ lastHandler' =
                            <<"visits.get", "catch", IF r1.rejected THEN status1 ELSE status2>>
              /\ pageLoading' = (IF alive THEN FALSE ELSE pageLoading)
    /\ UNCHANGED <<nurse, authLoading, created, loginVars, patient, saving, editsWhileSaving,
                   edits, formVars, bpVars, downloads, clock, typeVars>>

\* the Download PDF button: generatePDF, doc.save and the toast
VisitDetail_generatePDF ==
    /\ FormShown(VisitPath)
    /\ Len(downloads) < MaxDownloads
    /\ downloads' = Append(downloads, generatePDF(detailPatient, visit, clock))
    /\ toasts' = <<"PDF downloaded successfully">>
    /\ lastHandler' = <<"generatePDF">>
    /\ UNCHANGED <<authVars, navVars, net, created, loginVars, pageVars, formVars, bpVars,
                   visit, detailPatient, clock, typeVars>>

\* time passes
Tick ==
    /\ clock < MaxClock
    /\ clock' = clock + 1
    /\ UNCHANGED <<authVars, navVars, net, created, toasts, lastHandler, loginVars, pageVars,
                   formVars, bpVars, visit, detailPatient, downloads, typeVars>>

InitReport ==
    /\ LoggedIn /\ FormsFresh /\ BPIdle
    /\ path = VisitPath
    /\ pageLoading = TRUE
    /\ net = <<Request("visits.get", NoPayload)>>
    /\ lastHandler = <<"mount">>

NextReport ==
    \/ \E i \in 1..MaxInflight, s1 \in Statuses, s2 \in Statuses :
          VisitDetail_fetchVisitData(i, s1, s2)
    \/ VisitDetail_generatePDF
    \/ Tick
    \/ BackToPatient(VisitPath)
    \/ ForcedLoad

SpecReport == InitReport /\ [][NextReport]_vars

\* the doc.text calls of a document in page order, each with its page
RECURSIVE Placed(_, _)
Placed(pages, i) ==
    IF i > Len(pages) THEN <<>>
    ELSE [k \in 1..Len(pages[i]) |-> [page |-> i, item |-> pages[i][k]]]
            \o Placed(pages, i + 1)

IsHeading(x) == x.item.kind \in {"header", "title", "section"}
Headings(pages) == SelectSeq(Placed(pages, 1), IsHeading)
HeadingLabels(pages) == {Headings(pages)[i].item.label : i \in DOMAIN Headings(pages)}
FieldLines(pages) ==
    {<<x.item.label, x.item.lines>> : x \in
        {Placed(pages, 1)[i] : i \in {j \in DOMAIN Placed(pages, 1) :
                                        Placed(pages, 1)[j].item.kind = "field"}}}

SectionOrder ==
    <<"MedRounds", "Patient Information", "Visit Information", "Vital Signs",
      "Physical Assessment", "Head to Toe Assessment", "Gastrointestinal Assessment",
      "Genito-Urinary Assessment", "Respiratory Assessment", "Endocrine Assessment",
      "Changes Since Last Visit", "Nurse Notes">>
RankOf(label) == CHOOSE i \in DOMAIN SectionOrder : SectionOrder[i] = label
Above(a, b) == a.page < b.page \/ (a.page = b.page /\ a.item.y < b.item.y)

\* C13: in every report the headings are drawn from the fixed list, start with the
\* header, and any two of them appear (in emission order and in position on the pages)
\* in the order of that list
C13_SectionOrder ==
    \A n \in DOMAIN downloads :
        LET h == Headings(downloads[n].pages)
        IN  /\ h # <<>> /\ h[1].item.label = "MedRounds"
            /\ \A i \in DOMAIN h : \E r \in DOMAIN SectionOrder : SectionOrder[r] = h[i].item.label
            /\ \A i, j \in DOMAIN h :
                  i < j => (RankOf(h[i].item.label) < RankOf(h[j].item.label)
                            /\ Above(h[i], h[j]))

C13_Witness ==
    /\ lastHandler = <<"generatePDF">>
    /\ Len(downloads[1].pages) >= 2
    /\ Len(Headings(downloads[1].pages)) = Len(SectionOrder)

\* C14: the Endocrine heading is in the report exactly when is_diabetic is true, the
\* Nurse Notes heading exactly when nurse_notes is a non-empty string, and every other
\* heading always
C14_ConditionalSections ==
    \A n \in DOMAIN downloads :
        LET labels == HeadingLabels(downloads[n].pages)
        IN  /\ "Endocrine Assessment" \in labels <=> visit.endocrine.is_diabetic = Bool(TRUE)
            /\ "Nurse Notes" \in labels
                  <=> (visit.nurse_notes.k = "str" /\ visit.nurse_notes.s # <<>>)
            /\ \A r \in DOMAIN SectionOrder :
                  SectionOrder[r] \notin {"Endocrine Assessment", "Nurse Notes"}
                     => SectionOrder[r] \in labels

C14_Witness ==
    /\ lastHandler = <<"generatePDF">>
    /\ visit.endocrine.is_diabetic = Bool(FALSE)
    /\ visit.endocrine.blood_sugar = Short
    /\ visit.nurse_notes = Str(<<>>)
    /\ HeadingLabels(downloads[1].pages) \cap {"Endocrine Assessment", "Nurse Notes"} = {}

Missing(value) == ~Truthy(value)

\* the fields of each section with the condition under which the value is missing
SectionFields(p, v) ==
    {<<"Patient Information", "Name", Missing(p.full_name)>>,
     <<"Patient Information", "Date of Birth", Missing(p.permanent_info.date_of_birth)>>,
     <<"Patient Information", "Gender", Missing(p.permanent_info.gender)>>,
     <<"Patient Information", "Address", Missing(p.permanent_info.home_address)>>,
     <<"Visit Information", "Visit Date", Missing(v.visit_date)>>,
     <<"Visit Information", "Health Status", Missing(v.overall_health_status)>>,
     <<"Vital Signs", "Weight", Missing(v.vital_signs.weight)>>,
     <<"Vital Signs", "Temperature", Missing(v.vital_signs.body_temperature)>>,
     <<"Vital Signs", "Blood Pressure",
       Missing(v.vital_signs.blood_pressure_systolic)
          \/ Missing(v.vital_signs.blood_pressure_diastolic)>>,
     <<"Vital Signs", "Repeat BP",
       Missing(v.vital_signs.repeat_blood_pressure_systolic)
          \/ Missing(v.vital_signs.repeat_blood_pressure_diastolic)>>,
     <<"Vital Signs", "SpO2", Missing(v.vital_signs.pulse_oximeter)>>,
     <<"Vital Signs", "Pulse", Missing(v.vital_signs.pulse)>>,
     <<"Vital Signs", "Respirations", Missing(v.vital_signs.respirations)>>,
     <<"Physical Assessment", "General Appearance",
       Missing(v.physical_assessment.general_appearance)>>,
     <<"Physical Assessment", "Skin Assessment", Missing(v.physical_assessment.skin_assessment)>>,
     <<"Physical Assessment", "Mobility Level", Missing(v.physical_assessment.mobility_level)>>,
     <<"Physical Assessment", "Speech Level", Missing(v.physical_assessment.speech_level)>>,
     <<"Physical Assessment", "Alert & Oriented",
       Missing(v.physical_assessment.alert_oriented_level)>>,
     <<"Head to Toe Assessment", "Head & Neck", Missing(v.head_to_toe.head_neck)>>,
     <<"Head to Toe Assessment", "Eyes/Vision", Missing(v.head_to_toe.eyes_vision)>>,
     <<"Head to Toe Assessment", "Ears/Hearing", Missing(v.head_to_toe.ears_hearing)>>,
     <<"Head to Toe Assessment", "Nose/Nasal", Missing(v.head_to_toe.nose_nasal_cavity)>>,
     <<"Head to Toe Assessment", "Mouth/Oral", Missing(v.head_to_toe.mouth_teeth_oral_cavity)>>,
     <<"Gastrointestinal Assessment", "Last Bowel Movement",
       Missing(v.gastrointestinal.last_bowel_movement)>>,
     <<"Gastrointestinal Assessment", "Bowel Sounds", Missing(v.gastrointestinal.bowel_sounds)>>,
     <<"Gastrointestinal Assessment", "Diet Type", Missing(v.gastrointestinal.nutritional_diet)>>,
     <<"Genito-Urinary Assessment", "Toileting Level", Missing(v.genito_urinary.toileting_level)>>,
     <<"Respiratory Assessment", "Lung Sounds", Missing(v.respiratory.lung_sounds)>>,
     <<"Respiratory Assessment", "Oxygen Type", Missing(v.respiratory.oxygen_type)>>,
     <<"Endocrine Assessment", "Blood Sugar", Missing(v.endocrine.blood_sugar)>>,
     <<"Endocrine Assessment", "Notes", Missing(v.endocrine.diabetic_notes)>>,
     <<"Changes Since Last Visit", "Medication Changes",
       Missing(v.changes_since_last.medication_changes)>>,
     <<"Changes Since Last Visit", "Diagnosis Changes",
       Missing(v.changes_since_last.diagnosis_changes)>>,
     <<"Changes Since Last Visit", "ER/Urgent Care",
       Missing(v.changes_since_last.er_urgent_care_visits)>>,
     <<"Changes Since Last Visit", "Upcoming Appointments",
       Missing(v.changes_since_last.upcoming_appointments)>>}

\* C15 as claimed: in every report, each field of an emitted section whose value is
\* missing or empty has its line, and the line reads N/A; the Repeat BP line and a
\* blood pressure without diastolic value included
C15_MissingIsNA ==
    \A n \in DOMAIN downloads :
        \A f \in SectionFields(detailPatient, visit) :
            (f[1] \in HeadingLabels(downloads[n].pages) /\ f[3])
               => <<f[2], <<NA>>>> \in FieldLines(downloads[n].pages)

SectionContent(pages) ==
    [i \in DOMAIN pages |-> SelectSeq(pages[i], LAMBDA item : item.kind # "footer")]

\* each run of white space of s as one underscore
RECURSIVE Collapsed(_, _)
Collapsed(s, i) ==
    IF i > Len(s) THEN <<>>
    ELSE (IF ~IsWhiteSpace(s[i]) THEN <<s[i]>>
          ELSE IF i = 1 \/ ~IsWhiteSpace(s[i - 1]) THEN <<"_">>
          ELSE <<>>) \o Collapsed(s, i + 1)

\* C16: all reports generated from the visit page have the same content outside the
\* footers (headings, labels, values, positions and pages) and the same file name,
\* whenever they were generated; the name is visit_<full name, white-space runs as
\* one underscore>_<formatted visit date>.pdf
C16_Idempotent ==
    /\ \A i, j \in DOMAIN downloads :
          /\ downloads[i].name = downloads[j].name
          /\ SectionContent(downloads[i].pages) = SectionContent(downloads[j].pages)
    /\ \A i \in DOMAIN downloads :
          detailPatient.full_name.k = "str" =>
             downloads[i].name =
                <<"visit_">> \o Collapsed(detailPatient.full_name.s, 1) \o <<"_">>
                   \o formatDate(visit.visit_date) \o <<".pdf">>

C16_Witness ==
    /\ Len(downloads) = 2
    /\ clock = 1
    /\ downloads[1].pages # downloads[2].pages
    /\ detailPatient.full_name = Str(<<"Ann", " ", "\t", "Lee">>)
    /\ downloads[2].name =
          <<"visit_", "Ann", "_", "Lee", "_", "Jan", " ", "5", ",", " ", "2025", ".pdf">>

\* C17: every page i of the N pages of a report carries the footer text Page i of N
\* and a generation time stamp
C17_FooterOnEveryPage ==
    \A n \in DOMAIN downloads :
        LET pages == downloads[n].pages
        IN  \A i \in DOMAIN pages :
               /\ \E k \in DOMAIN pages[i] :
                     /\ pages[i][k].kind = "footer"
                     /\ pages[i][k].lines = <<PageOf(i, Len(pages))>>
               /\ \E k \in DOMAIN pages[i] :
                     /\ pages[i][k].kind = "footer"
                     /\ pages[i][k].label = "generated"

C17_Witness ==
    /\ lastHandler = <<"generatePDF">>
    /\ Len(downloads[1].pages) >= 2
    /\ \E k \in DOMAIN downloads[1].pages[1] :
          downloads[1].pages[1][k].lines = <<<<"Page", " ", "1", " ", "of", " ", "2">>>>
    /\ \E item \in {downloads[1].pages[2][k] : k \in DOMAIN downloads[1].pages[2]} :
          item.kind = "field"

\* the items of the pages of a report, each with its page
ItemsOf(pages) == {Placed(pages, 1)[i] : i \in DOMAIN Placed(pages, 1)}
\* the first item a page break puts on its page
OpensPage(pages, x) == x.page > 1 /\ pages[x.page][1] = x.item

\* C23: in every report a section header is drawn at y <= 260 and the first line of
\* a field at y <= 270, and the item that follows a page break is drawn at the top
\* margin 20 of the new page
C23_PageBreaks ==
    \A n \in DOMAIN downloads :
        LET pages == downloads[n].pages
        IN  \A x \in ItemsOf(pages) :
                /\ x.item.kind = "section" => x.item.y <= 260
                /\ x.item.kind = "field" => x.item.y <= 270
                /\ OpensPage(pages, x) =>
                      x.item.kind \in {"section", "field"} /\ x.item.y = 20

C23_SectionBreakSeen ==
    \E n \in DOMAIN downloads : \E x \in ItemsOf(downloads[n].pages) :
        x.item.kind = "section" /\ OpensPage(downloads[n].pages, x)
C23_FieldBreakSeen ==
    \E n \in DOMAIN downloads : \E x \in ItemsOf(downloads[n].pages) :
        x.item.kind = "field" /\ OpensPage(downloads[n].pages, x)

\* a report in which the header check broke the page although a field was drawn
\* below 260 on the page before
C23_Witness ==
    /\ lastHandler = <<"generatePDF">>
    /\ \E x \in ItemsOf(downloads[1].pages) :
          x.item.kind = "section" /\ OpensPage(downloads[1].pages, x) /\ x.item.y = 20
    /\ \E x \in ItemsOf(downloads[1].pages) :
          x.item.kind = "field" /\ x.page = 1 /\ x.item.y > 260

\* the cursor after a field drawn at y whose value wrapped to n lines
AfterField(y, n) == y + 7 * (IF n > 1 THEN n ELSE 1)
SectionGap == 5

\* C24: the item drawn after a field on the same page is one line-height (7) per
\* wrapped line of the field below it, and at least one line-height (a header
\* follows after the gap that ends a section); down a page the cursor only grows
C24_CursorAdvance ==
    \A n \in DOMAIN downloads : \A i \in DOMAIN downloads[n].pages :
        LET page == SelectSeq(downloads[n].pages[i], LAMBDA it : it.kind # "footer")
        IN  \A k \in 1..(Len(page) - 1) :
                LET a == page[k]
                    b == page[k + 1]
                IN  /\ b.y > a.y
                    /\ (a.kind = "field" /\ b.kind = "field") =>
                          b.y = AfterField(a.y, Len(a.lines))
                    /\ (a.kind = "field" /\ b.kind = "section") =>
                          b.y = AfterField(a.y, Len(a.lines)) + SectionGap
                    /\ a.kind = "field" => Len(a.lines) >= 1 /\ b.y >= a.y + 7

\* a field wrapped to three lines, the next field three line-heights below it
C24_Witness ==
    /\ lastHandler = <<"generatePDF">>
    /\ \E k \in 1..(Len(downloads[1].pages[1]) - 1) :
          LET a == downloads[1].pages[1][k]
              b == downloads[1].pages[1][k + 1]
          IN  /\ a.kind = "field" /\ Len(a.lines) = 3
              /\ b.kind = "field" /\ b.y = a.y + 21

\* C27: in every report each section header is followed, on its own page, by the
\* first field of its section (for Nurse Notes, by the notes text), so no page ends
\* with a section header
C27_HeaderNotLast ==
    \A n \in DOMAIN downloads : \A i \in DOMAIN downloads[n].pages :
        LET page == SelectSeq(downloads[n].pages[i], LAMBDA it : it.kind # "footer")
        IN  \A k \in DOMAIN page :
                page[k].kind = "section" =>
                    /\ k < Len(page)
                    /\ page[k + 1].kind =
                          (IF page[k].label = "Nurse Notes" THEN "text" ELSE "field")
                    /\ page[k + 1].y = page[k].y + 7

\* a section header low on the first page, its first field still below it
C27_Witness ==
    /\ lastHandler = <<"generatePDF">>
    /\ Len(downloads[1].pages) >= 2
    /\ \E k \in 1..(Len(downloads[1].pages[1]) - 1) :
          /\ downloads[1].pages[1][k].kind = "section"
          /\ downloads[1].pages[1][k].y > 250
          /\ downloads[1].pages[1][k + 1].kind = "field"

(***************************************************************************)
(* VisitTypePage: the choice of a visit type, and the way from it to the   *)
(* new-visit form                                                          *)
(***************************************************************************)
\* the location at which VisitTypePage is mounted; the route table of App.js does not
\* list the page, so the name stands for whichever location shows it
VisitTypePath == "/visit-type"
VisitTypes == {"nurse_visit", "vitals_only", "daily_note"}
Organizations == {"POSH-Able Living", "Ebenezer Private Home Care"}

\* RadioGroup onValueChange={setVisitType}
VisitType_setVisitType(t) ==
    /\ path = VisitTypePath /\ pendingHref = Null
    /\ visitType' = t
    /\ lastHandler' = <<"setVisitType", t>>
    /\ UNCHANGED <<authVars, navVars, net, created, toasts, loginVars, pageVars, formVars,
                   bpVars, pdfVars, organization, ssVisitType, ssOrganization>>

\* Select onValueChange={setOrganization}, rendered for a nurse visit only
VisitType_setOrganization(o) ==
    /\ path = VisitTypePath /\ pendingHref = Null
    /\ visitType = "nurse_visit"
    /\ organization' = o
    /\ lastHandler' = <<"setOrganization", o>>
    /\ UNCHANGED <<authVars, navVars, net, created, toasts, loginVars, pageVars, formVars,
                   bpVars, pdfVars, visitType, ssVisitType, ssOrganization>>

\* the proceed button is disabled without a visit type, and for a nurse visit
\* without an organization
VisitType_handleProceed ==
    /\ path = VisitTypePath /\ pendingHref = Null
    /\ visitType # "" /\ ~(visitType = "nurse_visit" /\ organization = "")
    /\ ssVisitType' = visitType
    /\ ssOrganization' = organization
    /\ path' = "/dashboard"
    /\ net' = Unmount(net)
    /\ lastHandler' = <<"VisitTypePage.handleProceed">>
    /\ UNCHANGED <<authVars, pendingHref, created, toasts, loginVars, pageVars, formVars,
                   bpVars, pdfVars, visitType, organization>>

\* a patient card of the dashboard: navigate(`/patients/${patient.id}`)
Dashboard_openPatient ==
    /\ path = "/dashboard" /\ pendingHref = Null
    /\ path' = PatientPath
    /\ net' = Unmount(net)
    /\ lastHandler' = <<"DashboardPage.openPatient">>
    /\ UNCHANGED <<authVars, pendingHref, created, toasts, loginVars, pageVars, formVars,
                   bpVars, pdfVars, typeVars>>

\* the New Visit button of the patient page, and the mount of NewVisitPage:
\* useState(initialVisitData) and the effect that calls fetchPatient
PatientDetail_newVisit ==
    /\ path = PatientPath /\ pendingHref = Null
    /\ net = <<>> /\ created = <<>>       \* one visit is recorded, no request pending
    /\ path' = NewVisitPath
    /\ visitData' = initialVisitData /\ bpAbnormal' = FALSE
    /\ patient' = Null /\ pageLoading' = TRUE /\ saving' = FALSE
    /\ editsWhileSaving' = 0
    /\ net' = Append(Unmount(net), Request("visit.patients.get", NoPayload))
    /\ toasts' = <<>>
    /\ lastHandler' = <<"mount">>
    /\ UNCHANGED <<authVars, pendingHref, created, loginVars, edits, iForm, uForm,
                   bpVars, pdfVars, typeVars>>

InitVisitType ==
    /\ LoggedIn /\ FormsFresh /\ BPIdle
    /\ path = VisitTypePath
    /\ pageLoading = FALSE
    /\ net = <<>>
    /\ lastHandler = <<"mount">>

NextVisitType ==
    \/ \E t \in VisitTypes : VisitType_setVisitType(t)
    \/ \E o \in Organizations : VisitType_setOrganization(o)
    \/ VisitType_handleProceed
    \/ Dashboard_openPatient
    \/ PatientDetail_newVisit
    \/ NextVisit

SpecVisitType == InitVisitType /\ [][NextVisitType]_vars

\* the choice is in session storage once the nurse has proceeded
C20_ChoiceStored ==
    lastHandler = <<"VisitTypePage.handleProceed">> =>
        /\ ssVisitType = visitType /\ ssVisitType \in VisitTypes
        /\ ssOrganization = organization

\* C20: the payload of every request that creates a visit carries the visit type
\* chosen on the visit type page, as session storage holds it
C20_PayloadCarriesVisitType ==
    \A i \in DOMAIN net :
        net[i].op = "visits.create" =>
            /\ "visit_type" \in DOMAIN net[i].payload
            /\ net[i].payload.visit_type = ssVisitType

(***************************************************************************)
(* SpecBPText: isBloodPressureAbnormal called on text, and text typed into *)
(* the two blood pressure inputs of the new-visit form                     *)
(***************************************************************************)
\* text without a leading integer: empty, letters only, a letter before the digit
NonNumericTexts == {Str(<<>>), Str(<<"a", "b", "c">>), Str(<<"x", "9">>)}
NumericTexts == {Str(<<"2", "0", "0">>), Str(<<"8", "0">>), Str(<<"5", "0">>)}
BPTexts == NonNumericTexts \cup NumericTexts
BPInputs == {"blood_pressure_systolic", "blood_pressure_diastolic"}

InitBPText ==
    /\ argSys \in BPTexts /\ argDia \in BPTexts
    /\ bpCalled = FALSE /\ bpResult = FALSE
    /\ LoggedIn /\ FormsFresh
    /\ path = NewVisitPath
    /\ pageLoading = TRUE
    /\ net = <<Request("visit.patients.get", NoPayload)>>
    /\ lastHandler = <<"mount">>

NextBPText ==
    \/ CallBP
    \/ \E i \in 1..MaxInflight, s \in Statuses : NewVisit_fetchPatient(i, s, NoLastVitals)
    \/ \E f \in BPInputs : \E v \in BPTexts : NewVisit_updateVitalSign(f, v)

SpecBPText == InitBPText /\ [][NextBPText]_vars

\* C22: a systolic or diastolic value that does not parse to an integer makes the
\* result false, also when the other value alone is out of range; on the form such
\* text can always be entered, and the display flag is then false
C22_NonNumericNotAbnormal ==
    LET at(sy, di) == bpCalled /\ argSys = Str(sy) /\ argDia = Str(di)
        vs == visitData.vital_signs
    IN  /\ (bpCalled /\ (argSys \in NonNumericTexts \/ argDia \in NonNumericTexts))
               => ~bpResult
        /\ at(<<"2", "0", "0">>, <<>>) => ~bpResult
        /\ at(<<>>, <<"5", "0">>) => ~bpResult
        /\ at(<<"a", "b", "c">>, <<"8", "0">>) => ~bpResult
        /\ at(<<"2", "0", "0">>, <<"8", "0">>) => bpResult
        /\ FormShown(NewVisitPath) =>
              /\ \A f \in BPInputs :
                    ENABLED NewVisit_updateVitalSign(f, Str(<<"a", "b", "c">>))
              /\ (\/ vs.blood_pressure_systolic \in NonNumericTexts
                  \/ vs.blood_pressure_diastolic \in NonNumericTexts) => ~bpAbnormal

C22_Witness ==
    /\ bpCalled /\ argSys = Str(<<"2", "0", "0">>) /\ argDia = Str(<<>>) /\ ~bpResult
    /\ FormShown(NewVisitPath)
    /\ visitData.vital_signs.blood_pressure_systolic = Str(<<"2", "0", "0">>)
    /\ visitData.vital_signs.blood_pressure_diastolic = Str(<<"a", "b", "c">>)
    /\ ~bpAbnormal

====
